---- MODULE Spec2Model ----
(***************************************************************************)
(* Grading core of llm-exam-game: the server path (server.js, handleGrade)  *)
(* and the in-browser path (grader.js, gradeAnswer).                        *)
(*                                                                          *)
(* Text is a sequence of one-character strings.  The backquote character    *)
(* cannot be written in a TLA+ string, so it is the token BQ.  Fixed        *)
(* messages that the code never inspects are one token each.                *)
(*                                                                          *)
(* A JavaScript value is a record [t, n, s, a, o]:                          *)
(*   t  "undef" | "null" | "bool" | "num" | "nan" | "str" | "arr" | "obj"   *)
(*   n  the number (t = "num") or 0/1 (t = "bool")                          *)
(*   s  the characters (t = "str")                                          *)
(*   a  the elements (t = "arr")                                            *)
(*   o  the named properties, in insertion order, as <<[k, v], ...>>        *)
(*      (t = "obj", and the expando properties of an array)                 *)
(***************************************************************************)
EXTENDS Integers, Sequences, FiniteSets, TLC

VARIABLES env, att, probe

vars == <<env, att, probe>>

----------------------------------------------------------------------------
(* Text *)

BQ == "BQ"

Chars(str) == [i \in 1..Len(str) |-> SubSeq(str, i, i)]

Fence == <<BQ, BQ, BQ>>

WhiteSpace == {" ", "\n", "\t", "\r"}

Digits == {"0", "1", "2", "3", "4", "5", "6", "7", "8", "9"}

DigitVal(c) ==
  CASE c = "0" -> 0 [] c = "1" -> 1 [] c = "2" -> 2 [] c = "3" -> 3
    [] c = "4" -> 4 [] c = "5" -> 5 [] c = "6" -> 6 [] c = "7" -> 7
    [] c = "8" -> 8 [] c = "9" -> 9

Min(x, y) == IF x <= y THEN x ELSE y

Max(x, y) == IF x >= y THEN x ELSE y

(* String.prototype.slice on 1-based inclusive indices, clipped to s *)
Slice(s, i, j) ==
  IF Max(i, 1) > Min(j, Len(s)) THEN <<>> ELSE SubSeq(s, Max(i, 1), Min(j, Len(s)))

RECURSIVE SkipWs(_, _)
(* index of the first non-whitespace character of s at or after i *)
SkipWs(s, i) ==
  IF i <= Len(s) /\ s[i] \in WhiteSpace THEN SkipWs(s, i + 1) ELSE i

RECURSIVE SkipWsBack(_, _)
(* index of the last non-whitespace character of s at or before i *)
SkipWsBack(s, i) ==
  IF i >= 1 /\ s[i] \in WhiteSpace THEN SkipWsBack(s, i - 1) ELSE i

(* String.prototype.trim *)
Trim(s) == Slice(s, SkipWs(s, 1), SkipWsBack(s, Len(s)))

(* s has p at index i *)
MatchAt(s, p, i) == \A k \in 1..Len(p) : s[i + k - 1] = p[k]

StartsWith(s, p) == Len(s) >= Len(p) /\ MatchAt(s, p, 1)

RECURSIVE IndexOfFrom(_, _, _)
(* String.prototype.indexOf(p, from): 0 when absent, else the 1-based index *)
IndexOfFrom(s, p, from) ==
  IF from + Len(p) - 1 > Len(s) THEN 0
  ELSE IF MatchAt(s, p, from) THEN from
  ELSE IndexOfFrom(s, p, from + 1)

IndexOf(s, p) == IndexOfFrom(s, p, 1)

RECURSIVE LastIndexOfFrom(_, _, _)
LastIndexOfFrom(s, p, from) ==
  IF from < 1 THEN 0
  ELSE IF MatchAt(s, p, from) THEN from
  ELSE LastIndexOfFrom(s, p, from - 1)

(* indexOf where lastIndexOf is meant: the first occurrence *)
LastIndexOf_first(s, p) == IndexOfFrom(s, p, 1)

(* String.prototype.lastIndexOf(p) *)
LastIndexOf(s, p) == LastIndexOfFrom(s, p, Len(s) - Len(p) + 1)

Includes(s, p) == IndexOf(s, p) # 0

UpperCase == Chars("ABCDEFGHIJKLMNOPQRSTUVWXYZ")

LowerCase == Chars("abcdefghijklmnopqrstuvwxyz")

ToLower(c) ==
  IF \E i \in 1..26 : UpperCase[i] = c
  THEN LowerCase[CHOOSE i \in 1..26 : UpperCase[i] = c]
  ELSE c

(* String.prototype.toLowerCase *)
ToLowerCase(s) == [i \in 1..Len(s) |-> ToLower(s[i])]

RECURSIVE NatToChars(_)
NatToChars(x) ==
  IF x < 10 THEN <<Chars("0123456789")[x + 1]>>
  ELSE Append(NatToChars(x \div 10), Chars("0123456789")[(x % 10) + 1])

(* Number.prototype.toString of an integer *)
IntToChars(x) == IF x < 0 THEN <<"-">> \o NatToChars(0 - x) ELSE NatToChars(x)

----------------------------------------------------------------------------
(* JavaScript values *)

(* the property names and words the code uses *)
K ==
  [ NaN |-> <<"N", "a", "N">>,
    anthropic |-> <<"a", "n", "t", "h", "r", "o", "p", "i", "c">>,
    booklistAlignment |-> <<"b", "o", "o", "k", "l", "i", "s", "t", "A", "l", "i", "g", "n", "m", "e", "n", "t">>,
    booklistTopics |-> <<"b", "o", "o", "k", "l", "i", "s", "t", "T", "o", "p", "i", "c", "s">>,
    candidates |-> <<"c", "a", "n", "d", "i", "d", "a", "t", "e", "s">>,
    choices |-> <<"c", "h", "o", "i", "c", "e", "s">>,
    claude |-> <<"c", "l", "a", "u", "d", "e">>,
    content |-> <<"c", "o", "n", "t", "e", "n", "t">>,
    error |-> <<"e", "r", "r", "o", "r">>,
    false |-> <<"f", "a", "l", "s", "e">>,
    gemini |-> <<"g", "e", "m", "i", "n", "i">>,
    google |-> <<"g", "o", "o", "g", "l", "e">>,
    improvements |-> <<"i", "m", "p", "r", "o", "v", "e", "m", "e", "n", "t", "s">>,
    json |-> <<"j", "s", "o", "n">>,
    length |-> <<"l", "e", "n", "g", "t", "h">>,
    maxScore |-> <<"m", "a", "x", "S", "c", "o", "r", "e">>,
    message |-> <<"m", "e", "s", "s", "a", "g", "e">>,
    missingPoints |-> <<"m", "i", "s", "s", "i", "n", "g", "P", "o", "i", "n", "t", "s">>,
    nextDrill |-> <<"n", "e", "x", "t", "D", "r", "i", "l", "l">>,
    null |-> <<"n", "u", "l", "l">>,
    openai |-> <<"o", "p", "e", "n", "a", "i">>,
    parts |-> <<"p", "a", "r", "t", "s">>,
    prompt |-> <<"p", "r", "o", "m", "p", "t">>,
    q1 |-> <<"q", "1">>,
    q2 |-> <<"q", "2">>,
    q3 |-> <<"q", "3">>,
    rationale |-> <<"r", "a", "t", "i", "o", "n", "a", "l", "e">>,
    raw |-> <<"r", "a", "w">>,
    refsToReview |-> <<"r", "e", "f", "s", "T", "o", "R", "e", "v", "i", "e", "w">>,
    result |-> <<"r", "e", "s", "u", "l", "t">>,
    role |-> <<"r", "o", "l", "e">>,
    score |-> <<"s", "c", "o", "r", "e">>,
    section |-> <<"s", "e", "c", "t", "i", "o", "n">>,
    set1 |-> <<"s", "e", "t", "1">>,
    strengths |-> <<"s", "t", "r", "e", "n", "g", "t", "h", "s">>,
    suggestedOutline |-> <<"s", "u", "g", "g", "e", "s", "t", "e", "d", "O", "u", "t", "l", "i", "n", "e">>,
    system |-> <<"s", "y", "s", "t", "e", "m">>,
    text |-> <<"t", "e", "x", "t">>,
    timeboxMinutes |-> <<"t", "i", "m", "e", "b", "o", "x", "M", "i", "n", "u", "t", "e", "s">>,
    topics |-> <<"t", "o", "p", "i", "c", "s">>,
    true |-> <<"t", "r", "u", "e">>,
    undefined |-> <<"u", "n", "d", "e", "f", "i", "n", "e", "d">>,
    user |-> <<"u", "s", "e", "r">> ]


JUndef == [t |-> "undef", n |-> 0, s |-> <<>>, a |-> <<>>, o |-> <<>>]

JNull == [t |-> "null", n |-> 0, s |-> <<>>, a |-> <<>>, o |-> <<>>]

JNaN == [t |-> "nan", n |-> 0, s |-> <<>>, a |-> <<>>, o |-> <<>>]

JBool(b) == [t |-> "bool", n |-> IF b THEN 1 ELSE 0, s |-> <<>>, a |-> <<>>, o |-> <<>>]

JNum(x) == [t |-> "num", n |-> x, s |-> <<>>, a |-> <<>>, o |-> <<>>]

JStr(cs) == [t |-> "str", n |-> 0, s |-> cs, a |-> <<>>, o |-> <<>>]

JArr(elems) == [t |-> "arr", n |-> 0, s |-> <<>>, a |-> elems, o |-> <<>>]

JObj(props) == [t |-> "obj", n |-> 0, s |-> <<>>, a |-> <<>>, o |-> props]

P(key, val) == [k |-> key, v |-> val]

(* ToBoolean *)
Truthy(v) ==
  CASE v.t \in {"undef", "null", "nan"} -> FALSE
    [] v.t = "bool" -> v.n = 1
    [] v.t = "num" -> v.n # 0
    [] v.t = "str" -> v.s # <<>>
    [] OTHER -> TRUE

(* the typeof operator *)
TypeOf(v) ==
  CASE v.t = "undef" -> "undefined"
    [] v.t = "bool" -> "boolean"
    [] v.t \in {"num", "nan"} -> "number"
    [] v.t = "str" -> "string"
    [] OTHER -> "object"

IsArray(v) == v.t = "arr"

IsFinite(v) == v.t = "num"

(* the value keeps named properties: an object or an array *)
HoldsProps(v) == v.t \in {"obj", "arr"}

HasProp(v, key) == HoldsProps(v) /\ \E i \in 1..Len(v.o) : v.o[i].k = key

(* v[key]: undefined for a key the value does not carry (none of the keys  *)
(* the grader reads is defined on a primitive's prototype)                 *)
GetProp(v, key) ==
  IF HasProp(v, key)
  THEN v.o[CHOOSE i \in 1..Len(v.o) : v.o[i].k = key].v
  ELSE JUndef

(* v[key] = x on an object or an array: an existing key keeps its place *)
PutProp(v, key, x) ==
  IF HasProp(v, key)
  THEN [v EXCEPT !.o = [i \in 1..Len(v.o) |->
                          IF v.o[i].k = key THEN P(key, x) ELSE v.o[i]]]
  ELSE [v EXCEPT !.o = Append(v.o, P(key, x))]

(* v[key] = x in sloppy mode (server.js is a CommonJS script): the write  *)
(* to a primitive is dropped silently                                      *)
SloppySet(v, key, x) == IF HoldsProps(v) THEN PutProp(v, key, x) ELSE v

RECURSIVE Wire(_)
(* JSON.parse(JSON.stringify(v)): what the client receives of v.  The      *)
(* expando properties of an array are not serialized, properties holding  *)
(* undefined are left out, undefined or NaN array elements become null.   *)
Wire(v) ==
  CASE v.t = "arr" ->
         JArr([i \in 1..Len(v.a) |->
                 IF v.a[i].t \in {"undef", "nan"} THEN JNull ELSE Wire(v.a[i])])
    [] v.t = "obj" ->
         JObj([i \in 1..Len(SelectSeq(v.o, LAMBDA p : p.v.t # "undef")) |->
                 LET p == SelectSeq(v.o, LAMBDA q : q.v.t # "undef")[i]
                 IN  P(p.k, IF p.v.t = "nan" THEN JNull ELSE Wire(p.v))])
    [] v.t = "nan" -> JNull
    [] OTHER -> v

----------------------------------------------------------------------------
(* JSON.parse, on the grammar the inputs use: objects, arrays, strings     *)
(* without escapes, integers, true, false, null, and whitespace.  A parse  *)
(* is [ok, v, i]: success, the value, the index after it.                  *)

PFail == [ok |-> FALSE, v |-> JUndef, i |-> 0]

POk(val, next) == [ok |-> TRUE, v |-> val, i |-> next]

RECURSIVE DigitsEnd(_, _)
DigitsEnd(s, i) ==
  IF i <= Len(s) /\ s[i] \in Digits THEN DigitsEnd(s, i + 1) ELSE i

RECURSIVE DigitsValue(_, _, _, _)
DigitsValue(s, i, j, acc) ==
  IF i >= j THEN acc ELSE DigitsValue(s, i + 1, j, acc * 10 + DigitVal(s[i]))

ParseNumber(s, i) ==
  LET neg == i <= Len(s) /\ s[i] = "-"
      d == IF neg THEN i + 1 ELSE i
      e == DigitsEnd(s, d)
  IN  IF e = d THEN PFail
      ELSE IF s[d] = "0" /\ e > d + 1 THEN PFail
      ELSE IF e <= Len(s) /\ s[e] \in {".", "e", "E"} THEN PFail
      ELSE POk(JNum(IF neg THEN 0 - DigitsValue(s, d, e, 0)
                          ELSE DigitsValue(s, d, e, 0)), e)

ParseString(s, i) ==
  LET close == IndexOfFrom(s, <<"\"">>, i + 1)
      body == Slice(s, i + 1, close - 1)
  IN  IF close = 0 THEN PFail
      ELSE IF \E j \in 1..Len(body) : body[j] \in {"\\", "\n", "\t", "\r"} THEN PFail
      ELSE POk(JStr(body), close + 1)

ParseLiteral(s, i, word, val) ==
  IF Slice(s, i, i + Len(word) - 1) = word THEN POk(val, i + Len(word)) ELSE PFail

RECURSIVE ParseValue(_, _)
RECURSIVE ParseElements(_, _, _)
RECURSIVE ParseMembers(_, _, _)

(* the elements of an array after "[" or ",": i is at an element *)
ParseElements(s, i, acc) ==
  LET e == ParseValue(s, i)
      j == SkipWs(s, e.i)
  IN  IF ~e.ok \/ j > Len(s) THEN PFail
      ELSE IF s[j] = "]" THEN POk(JArr(Append(acc, e.v)), j + 1)
      ELSE IF s[j] = "," THEN ParseElements(s, j + 1, Append(acc, e.v))
      ELSE PFail

(* the members of an object after "{" or ",": i is at or before a key *)
ParseMembers(s, i, acc) ==
  LET k0 == SkipWs(s, i)
      key == IF k0 <= Len(s) /\ s[k0] = "\"" THEN ParseString(s, k0) ELSE PFail
      c == SkipWs(s, key.i)
      val == IF key.ok /\ c <= Len(s) /\ s[c] = ":" THEN ParseValue(s, c + 1) ELSE PFail
      j == SkipWs(s, val.i)
      obj == PutProp(acc, key.v.s, val.v)
  IN  IF ~val.ok \/ j > Len(s) THEN PFail
      ELSE IF s[j] = "}" THEN POk(obj, j + 1)
      ELSE IF s[j] = "," THEN ParseMembers(s, j + 1, obj)
      ELSE PFail

ParseValue(s, i0) ==
  LET i == SkipWs(s, i0)
  IN  IF i > Len(s) THEN PFail
      ELSE CASE s[i] = "{" ->
                  (LET j == SkipWs(s, i + 1)
                   IN  IF j <= Len(s) /\ s[j] = "}" THEN POk(JObj(<<>>), j + 1)
                       ELSE ParseMembers(s, i + 1, JObj(<<>>)))
             [] s[i] = "[" ->
                  (LET j == SkipWs(s, i + 1)
                   IN  IF j <= Len(s) /\ s[j] = "]" THEN POk(JArr(<<>>), j + 1)
                       ELSE ParseElements(s, i + 1, <<>>))
             [] s[i] = "\"" -> ParseString(s, i)
             [] s[i] = "-" \/ s[i] \in Digits -> ParseNumber(s, i)
             [] s[i] = "t" -> ParseLiteral(s, i, K.true, JBool(TRUE))
             [] s[i] = "f" -> ParseLiteral(s, i, K.false, JBool(FALSE))
             [] s[i] = "n" -> ParseLiteral(s, i, K.null, JNull)
             [] OTHER -> PFail

(* JSON.parse(s): [ok, v]; ok = FALSE is the SyntaxError *)
JSONparse(s) ==
  LET r == ParseValue(s, 1)
  IN  IF r.ok /\ SkipWs(s, r.i) > Len(s) THEN [ok |-> TRUE, v |-> r.v]
      ELSE [ok |-> FALSE, v |-> JUndef]

----------------------------------------------------------------------------
(* safeJsonParse (identical in server.js and grader.js) *)

(* FenceMatch with the pattern written without its (?:json)? part *)
FenceMatch_noLabel(s) ==
  LET open == IndexOf(s, Fence)
      close == IF open = 0 THEN 0 ELSE IndexOfFrom(s, Fence, open + 3)
      from == SkipWs(s, open + 3)
      to == Max(SkipWsBack(s, close - 1), from - 1)
  IN  IF open = 0 \/ close = 0 THEN [matched |-> FALSE, g1 |-> <<>>]
      ELSE [matched |-> TRUE, g1 |-> Slice(s, from, to)]

(* trimmed.match(/```(?:json)?\s*([\s\S]*?)\s*```/i): [matched, g1].  The  *)
(* leftmost match opens at the first fence; the optional label and the    *)
(* greedy \s* are consumed; the lazy group ends before the whitespace     *)
(* that precedes the next fence.                                          *)
FenceMatch(s) ==
  LET open == IndexOf(s, Fence)
      labelled == open # 0 /\ ToLowerCase(Slice(s, open + 3, open + 6)) = K.json
      afterLabel == IF labelled THEN open + 7 ELSE open + 3
      close == IF open = 0 THEN 0 ELSE IndexOfFrom(s, Fence, afterLabel)
      from == SkipWs(s, afterLabel)
      to == Max(SkipWsBack(s, close - 1), from - 1)
  IN  IF open = 0 \/ close = 0 THEN [matched |-> FALSE, g1 |-> <<>>]
      ELSE [matched |-> TRUE, g1 |-> Slice(s, from, to)]

NoParse == [ok |-> FALSE, v |-> JUndef]

(* What safeJsonParse(text) does: the value returned, the strategy that    *)
(* returned it (0 when none did) and the strategies whose JSON.parse was   *)
(* called.                                                                 *)
safeJsonParseRun(text) ==
  LET trimmed == Trim(text.s)
      whole == JSONparse(trimmed)
      fenceMatch == FenceMatch(trimmed)
      useFence == fenceMatch.matched /\ fenceMatch.g1 # <<>>
      fenced == IF useFence THEN JSONparse(Trim(fenceMatch.g1)) ELSE NoParse
      first == IndexOf(trimmed, <<"{">>)
      last == LastIndexOf(trimmed, <<"}">>)
      useBraces == first # 0 /\ last # 0 /\ last > first
      braces == IF useBraces THEN JSONparse(Slice(trimmed, first, last)) ELSE NoParse
      after1 == IF useFence THEN {1, 2} ELSE {1}
      after2 == IF useBraces THEN after1 \cup {3} ELSE after1
  IN  IF TypeOf(text) # "string" THEN [v |-> JNull, by |-> 0, tried |-> {}]
      ELSE IF trimmed = <<>> THEN [v |-> JNull, by |-> 0, tried |-> {}]
      ELSE IF whole.ok THEN [v |-> whole.v, by |-> 1, tried |-> {1}]
      ELSE IF fenced.ok THEN [v |-> fenced.v, by |-> 2, tried |-> after1]
      ELSE IF braces.ok THEN [v |-> braces.v, by |-> 3, tried |-> after2]
      ELSE [v |-> JNull, by |-> 0, tried |-> after2]

safeJsonParse(text) == safeJsonParseRun(text).v

----------------------------------------------------------------------------
(* Conversions *)

RECURSIVE JsString(_)
RECURSIVE JoinFrom(_, _, _)

(* Array.prototype.join(sep) of the elements from index i: null and       *)
(* undefined elements contribute the empty string                         *)
JoinFrom(elems, i, sep) ==
  IF i > Len(elems) THEN <<>>
  ELSE (IF elems[i].t \in {"undef", "null"} THEN <<>> ELSE JsString(elems[i]))
       \o (IF i < Len(elems) THEN sep ELSE <<>>)
       \o JoinFrom(elems, i + 1, sep)

(* String(v) *)
JsString(v) ==
  CASE v.t = "str" -> v.s
    [] v.t = "num" -> IntToChars(v.n)
    [] v.t = "nan" -> K.NaN
    [] v.t = "bool" -> IF v.n = 1 THEN K.true ELSE K.false
    [] v.t = "null" -> K.null
    [] v.t = "undef" -> K.undefined
    [] v.t = "arr" -> JoinFrom(v.a, 1, <<",">>)
    [] OTHER -> Chars("[object Object]")

(* Number(s) of a string: whitespace is trimmed, the empty string is 0,   *)
(* an optionally signed run of digits is its value, anything else NaN     *)
StringToNumber(cs) ==
  LET tr == Trim(cs)
      neg == tr # <<>> /\ tr[1] = "-"
      signed == tr # <<>> /\ tr[1] \in {"-", "+"}
      d == IF signed THEN 2 ELSE 1
  IN  IF tr = <<>> THEN JNum(0)
      ELSE IF d > Len(tr) \/ DigitsEnd(tr, d) # Len(tr) + 1 THEN JNaN
      ELSE JNum(IF neg THEN 0 - DigitsValue(tr, d, Len(tr) + 1, 0)
                       ELSE DigitsValue(tr, d, Len(tr) + 1, 0))

(* Number(v) *)
ToNumber(v) ==
  CASE v.t \in {"num", "nan"} -> v
    [] v.t = "bool" -> JNum(v.n)
    [] v.t = "null" -> JNum(0)
    [] v.t = "undef" -> JNaN
    [] v.t = "str" -> StringToNumber(v.s)
    [] v.t = "arr" -> StringToNumber(JsString(v))
    [] OTHER -> JNaN

(* F(x) with x evaluated once: const y = x; return F(y) *)
Then(x, F(_)) == CHOOSE r \in {F(y) : y \in {x}} : TRUE

(* x || y *)
Or(x, y) == IF Truthy(x) THEN x ELSE y

(* Math.min(x, y) and Math.max(x, y): NaN when either is NaN *)
MathMin(x, y) == IF x.t = "nan" \/ y.t = "nan" THEN JNaN ELSE JNum(Min(x.n, y.n))

MathMax(x, y) == IF x.t = "nan" \/ y.t = "nan" THEN JNaN ELSE JNum(Max(x.n, y.n))

(* clampNumber(n, min, max, fallback) *)
clampNumber(n, min, max, fallback) ==
  LET x == ToNumber(n)
  IN  IF ~IsFinite(x) THEN JNum(fallback)
      ELSE MathMin(JNum(max), MathMax(JNum(min), x))

----------------------------------------------------------------------------
(* Outcome of a call: a value returned or an Error thrown.  class names    *)
(* the throw site's failure kind; msg is the Error's message.              *)

Returned(v) == [threw |-> FALSE, class |-> "", msg |-> <<>>, val |-> v]

Thrown(c, m) == [threw |-> TRUE, class |-> c, msg |-> m, val |-> JUndef]

(* v?.[key] and v?.[i] *)
OptProp(v, key) == GetProp(v, key)

OptIndex(v, i) == IF IsArray(v) /\ i + 1 <= Len(v.a) THEN v.a[i + 1] ELSE JUndef

----------------------------------------------------------------------------
(* server.js: provider and model *)

DefaultOpenAIModelName == Chars("gpt-4o-mini")

DefaultGoogleModelName == Chars("gemini-1.5-flash")

DefaultClaudeModelName == Chars("claude-3-5-sonnet-20241022")

(* DEFAULT_OPENAI_MODEL, DEFAULT_GOOGLE_MODEL, DEFAULT_CLAUDE_MODEL *)
DEFAULT_OPENAI_MODEL(e) == Or(e.OPENAI_MODEL, JStr(DefaultOpenAIModelName))

DEFAULT_GOOGLE_MODEL(e) == Or(e.GOOGLE_MODEL, JStr(DefaultGoogleModelName))

DEFAULT_CLAUDE_MODEL(e) ==
  Or(Or(e.CLAUDE_MODEL, e.ANTHROPIC_MODEL), JStr(DefaultClaudeModelName))

(* normalizeProvider comparing the value as given, with no alias *)
normalizeProvider_exact(value) ==
  LET v == JsString(Or(value, JStr(<<>>)))
  IN  IF v = K.google THEN K.google
      ELSE IF v = K.claude THEN K.claude
      ELSE K.openai

normalizeProvider(value) ==
  LET v == Trim(ToLowerCase(JsString(Or(value, JStr(<<>>)))))
  IN  IF v = K.anthropic THEN K.claude
      ELSE IF v = K.gemini THEN K.google
      ELSE IF v = K.google THEN K.google
      ELSE IF v = K.openai THEN K.openai
      ELSE IF v = K.claude THEN K.claude
      ELSE K.openai

defaultModelForProvider(provider, e) ==
  IF provider = K.google THEN DEFAULT_GOOGLE_MODEL(e)
  ELSE IF provider = K.claude THEN DEFAULT_CLAUDE_MODEL(e)
  ELSE DEFAULT_OPENAI_MODEL(e)

MaxModelLength == 120

normalizeModel(provider, model, e) ==
  LET trimmed == Trim(JsString(Or(model, JStr(<<>>))))
      fallback == defaultModelForProvider(provider, e)
  IN  IF trimmed = <<>> THEN fallback
      ELSE IF Len(trimmed) > MaxModelLength THEN fallback
      ELSE IF Includes(trimmed, <<"\n">>) \/ Includes(trimmed, <<"\r">>) THEN fallback
      ELSE JStr(trimmed)

sanitizeGoogleModel(model) ==
  LET trimmed == Trim(JsString(Or(model, JStr(<<>>))))
      withoutPrefix == IF StartsWith(trimmed, Chars("models/"))
                       THEN Slice(trimmed, Len(Chars("models/")) + 1, Len(trimmed))
                       ELSE trimmed
  IN  IF withoutPrefix = <<>> THEN Thrown("ModelError", <<"Missing Google model">>)
      ELSE IF Includes(withoutPrefix, <<"/">>) \/ Includes(withoutPrefix, <<"?">>)
              \/ Includes(withoutPrefix, <<"#">>)
           THEN Thrown("ModelError", <<"Google model name contains invalid characters">>)
      ELSE Returned(JStr(withoutPrefix))

----------------------------------------------------------------------------
(* server.js: the three adapters.  Each is cut at its await fetch(...):    *)
(* <name>_request is the code before it, returning the request to issue or *)
(* throwing; <name>_reply is the code after it, given the response.  A     *)
(* response is [rejected, ok, status, data]: rejected is fetch's own       *)
(* failure, data is res.json() or {} when the body is not JSON.            *)

Upstream(h, key, model) == [host |-> h, key |-> key, model |-> model]

MinKeyLength == 20

callOpenAI_request(apiKey, model, e) ==
  LET resolvedKey == Or(JStr(Trim(JsString(Or(apiKey, JStr(<<>>))))), e.OPENAI_API_KEY)
  IN  IF ~Truthy(resolvedKey)
      THEN Thrown("MissingCredential",
                  <<"Missing OpenAI API key (set env OPENAI_API_KEY or input it in the UI)">>)
      ELSE IF ~StartsWith(resolvedKey.s, Chars("sk-")) \/ Len(resolvedKey.s) < MinKeyLength
           THEN Thrown("InvalidCredentialFormat", <<"OpenAI API key format looks invalid">>)
      ELSE Returned(Upstream("api.openai.com", resolvedKey, model))

HttpErrorMessage(vendor, data, status) ==
  JsString(Or(OptProp(OptProp(data, K.error), K.message),
              JStr(<<vendor, " API error (">> \o IntToChars(status) \o <<")">>)))

callOpenAI_reply(resp) ==
  LET content == OptProp(OptProp(OptIndex(OptProp(resp.data, K.choices), 0),
                                 K.message), K.content)
  IN  IF resp.rejected THEN Thrown("TransportError", <<"fetch failed">>)
      ELSE IF ~resp.ok
           THEN Thrown("ProviderError", HttpErrorMessage("OpenAI", resp.data, resp.status))
      ELSE IF TypeOf(content) # "string" \/ Trim(content.s) = <<>>
           THEN Thrown("EmptyReply", <<"OpenAI API returned empty content">>)
      ELSE Returned(content)

callGoogle_request(apiKey, model, e) ==
  LET resolvedKey == Or(Or(JStr(Trim(JsString(Or(apiKey, JStr(<<>>))))), e.GOOGLE_API_KEY),
                        e.GEMINI_API_KEY)
      safeModel == sanitizeGoogleModel(model)
  IN  IF ~Truthy(resolvedKey)
      THEN Thrown("MissingCredential",
                  <<"Missing Google API key (set env GOOGLE_API_KEY/GEMINI_API_KEY or input it in the UI)">>)
      ELSE IF safeModel.threw THEN safeModel
      ELSE Returned(Upstream("generativelanguage.googleapis.com", resolvedKey, safeModel.val))

(* parts.map((p) => p?.text) *)
PartTexts(parts) == [i \in 1..Len(parts.a) |-> OptProp(parts.a[i], K.text)]

callGoogle_reply(resp) ==
  LET parts == OptProp(OptProp(OptIndex(OptProp(resp.data, K.candidates), 0),
                               K.content), K.parts)
      text == IF IsArray(parts)
              THEN JStr(JoinFrom(SelectSeq(PartTexts(parts), Truthy), 1, <<>>))
              ELSE JNull
  IN  IF resp.rejected THEN Thrown("TransportError", <<"fetch failed">>)
      ELSE IF ~resp.ok
           THEN Thrown("ProviderError", HttpErrorMessage("Google", resp.data, resp.status))
      ELSE IF TypeOf(text) # "string" \/ Trim(text.s) = <<>>
           THEN Thrown("EmptyReply", <<"Google API returned empty content">>)
      ELSE Returned(text)

callClaude_request(apiKey, model, e) ==
  LET resolvedKey == Or(JStr(Trim(JsString(Or(apiKey, JStr(<<>>))))), e.ANTHROPIC_API_KEY)
  IN  IF ~Truthy(resolvedKey)
      THEN Thrown("MissingCredential",
                  <<"Missing Anthropic API key (set env ANTHROPIC_API_KEY or input it in the UI)">>)
      ELSE IF Len(resolvedKey.s) < MinKeyLength
           THEN Thrown("InvalidCredentialFormat", <<"Anthropic API key format looks invalid">>)
      ELSE Returned(Upstream("api.anthropic.com", resolvedKey, model))

callClaude_reply(resp) ==
  LET parts == OptProp(resp.data, K.content)
      text == IF IsArray(parts)
              THEN JStr(JoinFrom(SelectSeq(PartTexts(parts), Truthy), 1, <<>>))
              ELSE JNull
  IN  IF resp.rejected THEN Thrown("TransportError", <<"fetch failed">>)
      ELSE IF ~resp.ok
           THEN Thrown("ProviderError", HttpErrorMessage("Anthropic", resp.data, resp.status))
      ELSE IF TypeOf(text) # "string" \/ Trim(text.s) = <<>>
           THEN Thrown("EmptyReply", <<"Anthropic API returned empty content">>)
      ELSE Returned(text)

----------------------------------------------------------------------------
(* server.js: handleGrade after the adapter returned *)

EmptyArray == JArr(<<>>)

ArrayFields == <<K.strengths, K.missingPoints, K.improvements,
                 K.suggestedOutline>>

ServerNotJsonRationale == <<"server.js:447 rationale (model reply is not JSON, retry)">>

FallbackTimebox == 10

TimeboxMin == 5

TimeboxMax == 120

TimeboxDefault == 15

DefaultBooklistAlignment ==
  JObj(<<P(K.topics, EmptyArray), P(K.refsToReview, EmptyArray)>>)

DefaultNextDrill ==
  JObj(<<P(K.prompt, JStr(<<>>)), P(K.timeboxMinutes, JNum(FallbackTimebox))>>)

(* the result object literal of the !parsed branch *)
handleGrade_fallback(maxScore) ==
  JObj(<<P(K.score, JNum(0)),
         P(K.maxScore, maxScore),
         P(K.rationale, JStr(ServerNotJsonRationale)),
         P(K.strengths, EmptyArray),
         P(K.missingPoints, EmptyArray),
         P(K.improvements, EmptyArray),
         P(K.suggestedOutline, EmptyArray),
         P(K.booklistAlignment, DefaultBooklistAlignment),
         P(K.nextDrill, DefaultNextDrill)>>)

(* EnsureArray without its test, wrapping what is there *)
EnsureArray_wrap(v, key) == SloppySet(v, key, JArr(<<GetProp(v, key)>>))

(* if (!Array.isArray(v[key])) v[key] = [] *)
EnsureArray(v, key) ==
  IF ~IsArray(GetProp(v, key)) THEN SloppySet(v, key, EmptyArray) ELSE v

(* parsed.score after lines 460-461 *)
handleGrade_score(parsed, maxScore) ==
  Then(GetProp(parsed, K.score), LAMBDA s0 :
  Then(IF TypeOf(s0) # "number" \/ ~IsFinite(s0)
       THEN SloppySet(parsed, K.score, JNum(0))
       ELSE parsed, LAMBDA p1 :
    SloppySet(p1, K.score,
              MathMax(JNum(0), MathMin(maxScore, ToNumber(GetProp(p1, K.score)))))))

(* lines 467-471: the value of parsed afterwards, or the TypeError of      *)
(* reading .topics of undefined                                           *)
handleGrade_booklist(parsed) ==
  Then(GetProp(parsed, K.booklistAlignment), LAMBDA b0 :
  Then(IF ~Truthy(b0) \/ TypeOf(b0) # "object"
       THEN SloppySet(parsed, K.booklistAlignment, DefaultBooklistAlignment)
       ELSE parsed, LAMBDA p1 :
  Then(GetProp(p1, K.booklistAlignment), LAMBDA b1 :
    IF b1.t \in {"undef", "null"}
    THEN Thrown("TypeError", <<"Cannot read properties of undefined (reading 'topics')">>)
    ELSE Then(EnsureArray(b1, K.topics), LAMBDA b2 :
         Then(EnsureArray(b2, K.refsToReview), LAMBDA b3 :
           Returned(SloppySet(p1, K.booklistAlignment, b3)))))))

(* lines 472-476 *)
handleGrade_nextDrill(parsed) ==
  Then(GetProp(parsed, K.nextDrill), LAMBDA n0 :
  Then(IF ~Truthy(n0) \/ TypeOf(n0) # "object"
       THEN SloppySet(parsed, K.nextDrill, DefaultNextDrill)
       ELSE parsed, LAMBDA p1 :
  Then(GetProp(p1, K.nextDrill), LAMBDA n1 :
    IF n1.t \in {"undef", "null"}
    THEN Thrown("TypeError", <<"Cannot read properties of undefined (reading 'prompt')">>)
    ELSE Then(IF TypeOf(GetProp(n1, K.prompt)) # "string"
              THEN SloppySet(n1, K.prompt, JStr(<<>>))
              ELSE n1, LAMBDA n2 :
         Then(SloppySet(n2, K.timeboxMinutes,
                        clampNumber(GetProp(n2, K.timeboxMinutes),
                                    TimeboxMin, TimeboxMax, TimeboxDefault)), LAMBDA n3 :
           Returned(SloppySet(p1, K.nextDrill, n3)))))))

(* lines 459-476: parsed as normalized in place, or the TypeError thrown *)
handleGrade_normalize(parsed, maxScore) ==
  Then(SloppySet(parsed, K.maxScore, maxScore), LAMBDA p1 :
  Then(handleGrade_score(p1, maxScore), LAMBDA p2 :
  Then(EnsureArray(p2, ArrayFields[1]), LAMBDA p3 :
  Then(EnsureArray(p3, ArrayFields[2]), LAMBDA p4 :
  Then(EnsureArray(p4, ArrayFields[3]), LAMBDA p5 :
  Then(EnsureArray(p5, ArrayFields[4]), LAMBDA p6 :
  Then(handleGrade_booklist(p6), LAMBDA p7 :
    IF p7.threw THEN p7 ELSE handleGrade_nextDrill(p7.val))))))))

(* the body of sendJson(res, 200, {result, raw}) as the client reads it *)
ResultBody(result, raw) ==
  Wire(JObj(<<P(K.result, result), P(K.raw, raw)>>))

(* the body of sendError(res, status, message) *)
ErrorBody(message) == JObj(<<P(K.error, JStr(message))>>)

(* lines 441-478: [status, body], or the error thrown to the server's catch *)
handleGrade_finish(raw, maxScore) ==
  Then(safeJsonParse(raw), LAMBDA parsed :
    IF ~Truthy(parsed)
    THEN Returned([status |-> 200, body |-> ResultBody(handleGrade_fallback(maxScore), raw),
                   steps |-> <<"extract", "fallback">>])
    ELSE Then(handleGrade_normalize(parsed, maxScore), LAMBDA norm :
           IF norm.threw THEN norm
           ELSE Returned([status |-> 200, body |-> ResultBody(norm.val, raw),
                          steps |-> <<"extract", "normalize">>])))

----------------------------------------------------------------------------
(* grader.js: the three adapters of the in-browser path, cut at fetch *)

(* callOpenAI of grader.js without its first line *)
grader_callOpenAI_request_unchecked(apiKey, model) ==
  Returned(Upstream("api.openai.com", apiKey, Or(model, JStr(DefaultOpenAIModelName))))

grader_callOpenAI_request(apiKey, model) ==
  IF ~Truthy(apiKey) THEN Thrown("MissingCredential", <<"Missing OpenAI API key">>)
  ELSE Returned(Upstream("api.openai.com", apiKey, Or(model, JStr(DefaultOpenAIModelName))))

grader_callOpenAI_reply(resp) ==
  IF resp.rejected THEN Thrown("TransportError", <<"fetch failed">>)
  ELSE IF ~resp.ok
       THEN Thrown("ProviderError", HttpErrorMessage("OpenAI", resp.data, resp.status))
  ELSE Returned(Or(OptProp(OptProp(OptIndex(OptProp(resp.data, K.choices), 0),
                                   K.message), K.content),
                   JStr(<<>>)))

grader_callGoogle_request(apiKey, model) ==
  LET m == Or(model, JStr(DefaultGoogleModelName))
      safeModel == IF StartsWith(JsString(m), Chars("models/"))
                   THEN JStr(Slice(JsString(m), Len(Chars("models/")) + 1, Len(JsString(m))))
                   ELSE m
  IN  IF ~Truthy(apiKey) THEN Thrown("MissingCredential", <<"Missing Google API key">>)
      ELSE Returned(Upstream("generativelanguage.googleapis.com", apiKey, safeModel))

grader_callGoogle_reply(resp) ==
  LET parts == OptProp(OptProp(OptIndex(OptProp(resp.data, K.candidates), 0),
                               K.content), K.parts)
  IN  IF resp.rejected THEN Thrown("TransportError", <<"fetch failed">>)
      ELSE IF ~resp.ok
           THEN Thrown("ProviderError", HttpErrorMessage("Google", resp.data, resp.status))
      ELSE Returned(IF IsArray(parts) THEN JStr(JoinFrom(PartTexts(parts), 1, <<>>))
                                      ELSE JStr(<<>>))

grader_callClaude_request(apiKey, model) ==
  IF ~Truthy(apiKey) THEN Thrown("MissingCredential", <<"Missing Anthropic API key">>)
  ELSE Returned(Upstream("api.anthropic.com", apiKey, Or(model, JStr(DefaultClaudeModelName))))

grader_callClaude_reply(resp) ==
  LET parts == OptProp(resp.data, K.content)
  IN  IF resp.rejected THEN Thrown("TransportError", <<"fetch failed">>)
      ELSE IF ~resp.ok
           THEN Thrown("ProviderError", HttpErrorMessage("Anthropic", resp.data, resp.status))
      ELSE Returned(IF IsArray(parts) THEN JStr(JoinFrom(PartTexts(parts), 1, <<>>))
                                      ELSE JStr(<<>>))

----------------------------------------------------------------------------
(* grader.js: gradeAnswer after the adapter returned.  grader.js is an ES  *)
(* module, hence strict: a property write to a primitive throws.           *)

GraderNotParsedRationale == <<"grader.js:205 rationale (reply format cannot be parsed, retry)">>

(* the value returned by the !parsed branch: raw is a field of result *)
gradeAnswer_fallback(maxScore, raw) ==
  JObj(<<P(K.result,
           JObj(<<P(K.score, JNum(0)),
                  P(K.maxScore, maxScore),
                  P(K.rationale, JStr(GraderNotParsedRationale)),
                  P(K.raw, raw)>>))>>)

(* parsed.score of line 213 *)
gradeAnswer_score(parsed, maxScore) ==
  MathMax(JNum(0), MathMin(maxScore, Or(ToNumber(GetProp(parsed, K.score)), JNum(0))))

(* if (!Array.isArray(parsed[k])) parsed[k] = [] *)
gradeAnswer_fill(parsed, k) ==
  IF ~IsArray(GetProp(parsed, k)) THEN PutProp(parsed, k, EmptyArray) ELSE parsed

(* lines 212-218: parsed as normalized in place, or the TypeError thrown *)
gradeAnswer_normalize(parsed, maxScore) ==
  IF ~HoldsProps(parsed)
  THEN Thrown("TypeError", <<"Cannot create property 'maxScore' on a primitive">>)
  ELSE Then(PutProp(parsed, K.maxScore, maxScore), LAMBDA p1 :
       Then(PutProp(p1, K.score, gradeAnswer_score(p1, maxScore)), LAMBDA p2 :
       Then(gradeAnswer_fill(p2, ArrayFields[1]), LAMBDA p3 :
       Then(gradeAnswer_fill(p3, ArrayFields[2]), LAMBDA p4 :
       Then(gradeAnswer_fill(p4, ArrayFields[3]), LAMBDA p5 :
         Returned(gradeAnswer_fill(p5, ArrayFields[4])))))))

(* lines 199-220: the value the promise resolves to, or the error it       *)
(* rejects with                                                            *)
gradeAnswer_finish(raw, maxScore) ==
  Then(safeJsonParse(raw), LAMBDA parsed :
    IF ~Truthy(parsed)
    THEN Returned([status |-> 0, body |-> gradeAnswer_fallback(maxScore, raw),
                   steps |-> <<"extract", "fallback">>])
    ELSE Then(gradeAnswer_normalize(parsed, maxScore), LAMBDA norm :
           IF norm.threw THEN norm
           ELSE Returned([status |-> 0,
                          body |-> JObj(<<P(K.result, norm.val), P(K.raw, raw)>>),
                          steps |-> <<"extract", "normalize">>])))

----------------------------------------------------------------------------
(* The question bank (data/<setId>.questions.json) and the inputs *)

Str(text) == JStr(Chars(text))

KnownSetId == K.set1

(* a Question: its id and its points as the JSON file gives them *)
QuestionBank ==
  << [id |-> K.q1, points |-> JNum(20)],
     [id |-> K.q2, points |-> Str("10")],
     [id |-> K.q3, points |-> JUndef] >>

(* readQuestions(setId): the file of an unknown set cannot be read *)
readQuestions(setId) ==
  IF setId = KnownSetId THEN Returned(QuestionBank)
  ELSE Thrown("FileError", <<"ENOENT: no such file or directory">>)

(* a find that falls back on the first question of the set *)
FindQuestion_first(questions, questionId) ==
  IF \E i \in 1..Len(questions) : questions[i].id = questionId
  THEN CHOOSE i \in 1..Len(questions) : questions[i].id = questionId
  ELSE 1

(* questions.find((q) => q.id === questionId): 0 when there is none *)
FindQuestion(questions, questionId) ==
  IF \E i \in 1..Len(questions) : questions[i].id = questionId
  THEN CHOOSE i \in 1..Len(questions) : questions[i].id = questionId
  ELSE 0

(* Number(question.points) || 0 *)
MaxScoreOf(question) == Or(ToNumber(question.points), JNum(0))

ValidOpenAIKey == Str("sk-0123456789abcdefg")

ValidOtherKey == Str("AIza0123456789abcdefghij")

ProviderInputs ==
  {JUndef, Str("openai"), Str("google"), Str("claude"), Str("mistral"),
   Str("gemini"), Str(" Anthropic ")}

ApiKeyInputs == {JUndef, Str("  "), Str("sk-short"), ValidOpenAIKey, ValidOtherKey}

ModelInputs == {JUndef, Str("  "), Str("gpt-4o"), Str("models/gemini-pro"), Str("a/b")}

NoKeysEnv ==
  [OPENAI_API_KEY |-> JUndef, GOOGLE_API_KEY |-> JUndef, GEMINI_API_KEY |-> JUndef,
   ANTHROPIC_API_KEY |-> JUndef, OPENAI_MODEL |-> JUndef, GOOGLE_MODEL |-> JUndef,
   CLAUDE_MODEL |-> JUndef, ANTHROPIC_MODEL |-> JUndef]

(* process.env after loadDotEnv: fixed for the life of the process *)
EnvInputs ==
  {NoKeysEnv,
   [NoKeysEnv EXCEPT !.OPENAI_API_KEY = ValidOpenAIKey, !.GEMINI_API_KEY = ValidOtherKey,
                     !.ANTHROPIC_API_KEY = Str("short")],
   [NoKeysEnv EXCEPT !.OPENAI_API_KEY = Str(""), !.GOOGLE_API_KEY = ValidOtherKey,
                     !.ANTHROPIC_API_KEY = ValidOtherKey, !.GOOGLE_MODEL = Str("models/")]}

(* a request body of POST /api/grade, as readJson returns it *)
Body(setId, questionId, answer, provider, model, apiKey) ==
  [badJson |-> FALSE, setId |-> setId, questionId |-> questionId, answer |-> answer,
   provider |-> provider, model |-> model, apiKey |-> apiKey]

(* the question, provider, model and key of the requests: every provider  *)
(* with every key, every provider with every model, every question        *)
Combos ==
  {[q |-> 1, provider |-> pr, model |-> JUndef, apiKey |-> k] :
     pr \in ProviderInputs, k \in ApiKeyInputs}
  \cup {[q |-> 1, provider |-> pr, model |-> m, apiKey |-> ValidOpenAIKey] :
          pr \in ProviderInputs, m \in ModelInputs}
  \cup {[q |-> q, provider |-> pr, model |-> JUndef, apiKey |-> ValidOpenAIKey] :
          q \in 1..Len(QuestionBank), pr \in {Str("openai"), Str("google")}}

ServerBodies ==
  {Body(JStr(KnownSetId), JStr(QuestionBank[c.q].id), Str("my answer"),
        c.provider, c.model, c.apiKey) : c \in Combos}
  \cup {Body(sid, qid, ans, Str("openai"), JUndef, ValidOpenAIKey) :
          sid \in {JUndef, Str("  "), Str("nope"), JStr(KnownSetId)},
          qid \in {JUndef, Str(" "), Str("q9"), Str("q1")},
          ans \in {JUndef, Str("  "), Str("my answer")}}
  \cup {[Body(JUndef, JUndef, JUndef, JUndef, JUndef, JUndef) EXCEPT !.badJson = TRUE]}

(* the argument of gradeAnswer *)
GraderArgs ==
  {[question |-> QuestionBank[c.q], answer |-> Str("my answer"), provider |-> c.provider,
    model |-> c.model, apiKey |-> c.apiKey] : c \in Combos}


----------------------------------------------------------------------------
(* What the upstream can answer *)

ObjectTexts ==
  { Chars("{\"score\":25,\"rationale\":\"ok\"}"),
    Chars("{\"score\":7,\"maxScore\":100,\"strengths\":[\"a\",\"b\"],\"missingPoints\":\"x\",\"nextDrill\":{\"prompt\":\"p\",\"timeboxMinutes\":500}}"),
    Chars("{\"score\":\"7\",\"strengths\":[1,{}],\"booklistAlignment\":{\"topics\":\"t\",\"refsToReview\":[2]}}"),
    Chars("{\"score\":-3,\"improvements\":{},\"booklistAlignment\":[],\"nextDrill\":[]}"),
    Chars("{\"score\":null,\"suggestedOutline\":null,\"booklistAlignment\":3,\"nextDrill\":{\"prompt\":5,\"timeboxMinutes\":\"x\"}}"),
    Chars("{}") }

NonObjectTexts ==
  { Chars("5"), Chars("[1,2]"), Chars("\"hi\""), Chars("true"), Chars("[]"),
    Chars("0"), Chars("null"), Chars("false") }

WrappedTexts ==
  { Chars("Sure! ") \o Fence \o Chars("json\n{\"score\":25,\"rationale\":\"ok\"}\n") \o Fence,
    Chars("Here: {\"score\":3,\"strengths\":[\"s\"]} done"),
    Fence \o Chars("\n[7]\n") \o Fence }

UnparseableTexts == { Chars("no json here"), Chars("{oops}") }

BlankTexts == { <<>>, Chars(" \n ") }

ReplyTexts == ObjectTexts \cup NonObjectTexts \cup WrappedTexts \cup UnparseableTexts

(* the response bodies of the three vendors carrying a text *)
OpenAIData(content) ==
  JObj(<<P(K.choices,
           JArr(<<JObj(<<P(K.message, JObj(<<P(K.content, content)>>))>>)>>))>>)

GoogleData(parts) ==
  JObj(<<P(K.candidates,
           JArr(<<JObj(<<P(K.content, JObj(<<P(K.parts, parts)>>))>>)>>))>>)

ClaudeData(parts) == JObj(<<P(K.content, parts)>>)

TextPart(text) == JObj(<<P(K.text, JStr(text))>>)

(* a text as one fragment, and a longer one also cut in two fragments *)
PartLists(text) ==
  {JArr(<<TextPart(text)>>)}
  \cup (IF Len(text) >= 4
        THEN {JArr(<<TextPart(Slice(text, 1, 2)), JObj(<<>>), TextPart(Slice(text, 3, Len(text)))>>)}
        ELSE {})

Http(ok, status, data) == [rejected |-> FALSE, ok |-> ok, status |-> status, data |-> data]

FetchRejected == [rejected |-> TRUE, ok |-> FALSE, status |-> 0, data |-> JUndef]

ErrorData(message) == JObj(<<P(K.error, JObj(<<P(K.message, Str(message))>>))>>)

FailureResponses ==
  { FetchRejected,
    Http(FALSE, 401, ErrorData("Incorrect API key provided")),
    Http(FALSE, 500, JObj(<<>>)) }

SuccessData(host, text) ==
  IF host = "api.openai.com" THEN {OpenAIData(JStr(text))}
  ELSE IF host = "generativelanguage.googleapis.com"
       THEN {GoogleData(parts) : parts \in PartLists(text)}
  ELSE {ClaudeData(parts) : parts \in PartLists(text)}

(* every response the upstream at host can give *)
Responses(host) ==
  FailureResponses
  \cup {Http(TRUE, 200, JObj(<<>>))}
  \cup {Http(TRUE, 200, d) : d \in UNION {SuccessData(host, t) : t \in ReplyTexts \cup BlankTexts}}

----------------------------------------------------------------------------
(* State.  env is process.env; att[a] is one grading attempt:              *)
(*   pc        "idle", "fetching" (suspended at await fetch) or "done"     *)
(*   path      "server" (handleGrade) or "static" (gradeAnswer)            *)
(*   req       the request body or the call's argument                     *)
(*   maxScore  the question's maxScore once computed                       *)
(*   adapter   the adapter function called: "openai", "google", "claude"   *)
(*   sent      the upstream requests issued, in order                      *)
(*   resp      the responses received, in order                            *)
(*   log       the components run, in order                                *)
(*   raised    the failure the adapter raised, if it did                   *)
(*   out       what the caller gets: kind "success" or "failure", the HTTP *)
(*             status (server), the body or returned value, the failure's  *)
(*             message                                                     *)
(* probe is the input and output of a function applied on its own.         *)

Attempts == {"a1"}

NoOut == [kind |-> "none", status |-> 0, body |-> JUndef, msg |-> <<>>]

IdleAttempt ==
  [pc |-> "idle", path |-> "none", req |-> <<>>, maxScore |-> JUndef, adapter |-> "none",
   sent |-> <<>>, resp |-> <<>>, log |-> <<>>, raised |-> Returned(JUndef), out |-> NoOut]

NoRun == [v |-> JNull, by |-> 0, tried |-> {}]

IdleProbe == [fn |-> "none", phase |-> "idle", text |-> JUndef, run |-> NoRun]

Init ==
  /\ env \in EnvInputs
  /\ att = [a \in Attempts |-> IdleAttempt]
  /\ probe = IdleProbe

(* sendError(res, status, message) *)
Failure(status, message) ==
  [kind |-> "failure", status |-> status, body |-> ErrorBody(message), msg |-> message]

(* a catch that answers 500 without the error's message *)
ServerCaught_generic(e) == Failure(500, <<"Internal error">>)

(* the catch of the http.createServer handler *)
ServerCaught(e) == Failure(500, IF e.msg = <<>> THEN <<"Internal error">> ELSE e.msg)

(* the rejection of the promise gradeAnswer returned *)
Rejected(e) == [kind |-> "failure", status |-> 0, body |-> JUndef, msg |-> e.msg]

Success(r) == [kind |-> "success", status |-> r.status, body |-> r.body, msg |-> <<>>]

(* handleGrade, lines 433-440: the adapter of the normalized provider *)
handleGrade_adapter(provider) ==
  IF provider = K.google THEN "google"
  ELSE IF provider = K.claude THEN "claude"
  ELSE "openai"

(* gradeAnswer, lines 190-197: the adapter of the provider as given *)
gradeAnswer_adapter(provider) ==
  IF provider = JStr(K.google) THEN "google"
  ELSE IF provider = JStr(K.claude) THEN "claude"
  ELSE "openai"

ServerRequest(adapter, apiKey, model, e) ==
  IF adapter = "google" THEN callGoogle_request(apiKey, model, e)
  ELSE IF adapter = "claude" THEN callClaude_request(apiKey, model, e)
  ELSE callOpenAI_request(apiKey, model, e)

ServerReply(adapter, resp) ==
  IF adapter = "google" THEN callGoogle_reply(resp)
  ELSE IF adapter = "claude" THEN callClaude_reply(resp)
  ELSE callOpenAI_reply(resp)

GraderRequest(adapter, apiKey, model) ==
  IF adapter = "google" THEN grader_callGoogle_request(apiKey, model)
  ELSE IF adapter = "claude" THEN grader_callClaude_request(apiKey, model)
  ELSE grader_callOpenAI_request(apiKey, model)

GraderReply(adapter, resp) ==
  IF adapter = "google" THEN grader_callGoogle_reply(resp)
  ELSE IF adapter = "claude" THEN grader_callClaude_reply(resp)
  ELSE grader_callOpenAI_reply(resp)

(* handleGrade from its entry to its first await fetch, or to its end when *)
(* it answers or throws before                                             *)
handleGrade_begin(a, body) ==
  LET setId == Trim(JsString(Or(body.setId, JStr(<<>>))))
      questionId == Trim(JsString(Or(body.questionId, JStr(<<>>))))
      provider == normalizeProvider(body.provider)
      model == normalizeModel(provider, body.model, env)
      apiKey == IF TypeOf(body.apiKey) = "string" THEN JStr(Trim(body.apiKey.s)) ELSE JStr(<<>>)
      answer == Trim(JsString(Or(body.answer, JStr(<<>>))))
      questions == readQuestions(setId)
      qi == FindQuestion(questions.val, questionId)
      maxScore == MaxScoreOf(questions.val[qi])
      adapter == handleGrade_adapter(provider)
      request == ServerRequest(adapter, apiKey, model, env)
      started == [att[a] EXCEPT !.path = "server", !.req = body]
      ended(o) == [started EXCEPT !.pc = "done", !.out = o]
  IN  /\ att[a].pc = "idle"
      /\ att' = [att EXCEPT ![a] =
           IF body.badJson THEN ended(ServerCaught(Thrown("BodyError", <<"Invalid JSON">>)))
           ELSE IF setId = <<>> THEN ended(Failure(400, <<"Missing setId">>))
           ELSE IF questionId = <<>> THEN ended(Failure(400, <<"Missing questionId">>))
           ELSE IF answer = <<>> THEN ended(Failure(400, <<"Missing answer">>))
           ELSE IF questions.threw THEN ended(ServerCaught(questions))
           ELSE IF qi = 0 THEN ended(Failure(404, <<"Question not found">>))
           ELSE IF request.threw
                THEN [started EXCEPT !.pc = "done", !.maxScore = maxScore,
                                     !.adapter = adapter, !.log = <<"build", "adapter">>,
                                     !.raised = request, !.out = ServerCaught(request)]
           ELSE [started EXCEPT !.pc = "fetching", !.maxScore = maxScore,
                                !.adapter = adapter, !.log = <<"build", "adapter", "fetch">>,
                                !.sent = <<request.val>>]]
      /\ UNCHANGED <<env, probe>>

(* handleGrade calling the adapter a second time after an empty reply *)
handleGrade_end_retry(t, reply) ==
  IF reply.threw /\ reply.class = "EmptyReply"
  THEN [t EXCEPT !.sent = @ \o @, !.raised = reply, !.out = ServerCaught(reply)]
  ELSE IF reply.threw THEN [t EXCEPT !.raised = reply, !.out = ServerCaught(reply)]
  ELSE Then(handleGrade_finish(reply.val, t.maxScore), LAMBDA finish :
         IF finish.threw
         THEN [t EXCEPT !.log = @ \o <<"extract", "normalize">>, !.out = ServerCaught(finish)]
         ELSE [t EXCEPT !.log = @ \o finish.val.steps, !.out = Success(finish.val)])

(* what handleGrade leaves of attempt t (already holding the response)    *)
(* once the adapter's reply is known                                      *)
handleGrade_end(t, reply) ==
  IF reply.threw THEN [t EXCEPT !.raised = reply, !.out = ServerCaught(reply)]
  ELSE Then(handleGrade_finish(reply.val, t.maxScore), LAMBDA finish :
         IF finish.threw
         THEN [t EXCEPT !.log = @ \o <<"extract", "normalize">>, !.out = ServerCaught(finish)]
         ELSE [t EXCEPT !.log = @ \o finish.val.steps, !.out = Success(finish.val)])

(* handleGrade reading, after its await, the maxScore another attempt in  *)
(* flight computed: a maxScore kept in a variable of the module           *)
handleGrade_resume_shared(a, resp) ==
  /\ att[a].pc = "fetching"
  /\ att[a].path = "server"
  /\ \E reply \in {ServerReply(att[a].adapter, resp)},
        b \in {x \in DOMAIN att : x = a \/ att[x].pc = "fetching"} :
       att' = [att EXCEPT ![a] =
                 handleGrade_end([att[a] EXCEPT !.pc = "done", !.resp = Append(@, resp),
                                                !.maxScore = att[b].maxScore], reply)]
  /\ UNCHANGED <<env, probe>>

(* handleGrade from the response of its fetch to its end *)
handleGrade_resume(a, resp) ==
  /\ att[a].pc = "fetching"
  /\ att[a].path = "server"
  /\ \E reply \in {ServerReply(att[a].adapter, resp)} :
       att' = [att EXCEPT ![a] =
                 handleGrade_end([att[a] EXCEPT !.pc = "done", !.resp = Append(@, resp)], reply)]
  /\ UNCHANGED <<env, probe>>

(* gradeAnswer from its entry to its first await fetch, or to its end when *)
(* the adapter throws before                                               *)
gradeAnswer_begin(a, arg) ==
  LET maxScore == MaxScoreOf(arg.question)
      adapter == gradeAnswer_adapter(arg.provider)
      request == GraderRequest(adapter, arg.apiKey, arg.model)
      started == [att[a] EXCEPT !.path = "static", !.req = arg, !.maxScore = maxScore,
                                !.adapter = adapter]
  IN  /\ att[a].pc = "idle"
      /\ att' = [att EXCEPT ![a] =
           IF request.threw
           THEN [started EXCEPT !.pc = "done", !.log = <<"build", "adapter">>,
                                !.raised = request, !.out = Rejected(request)]
           ELSE [started EXCEPT !.pc = "fetching", !.log = <<"build", "adapter", "fetch">>,
                                !.sent = <<request.val>>]]
      /\ UNCHANGED <<env, probe>>

(* what gradeAnswer leaves of attempt t (already holding the response)    *)
(* once the adapter's reply is known                                      *)
gradeAnswer_end(t, reply) ==
  IF reply.threw THEN [t EXCEPT !.raised = reply, !.out = Rejected(reply)]
  ELSE Then(gradeAnswer_finish(reply.val, t.maxScore), LAMBDA finish :
         IF finish.threw
         THEN [t EXCEPT !.log = @ \o <<"extract", "normalize">>, !.out = Rejected(finish)]
         ELSE [t EXCEPT !.log = @ \o finish.val.steps, !.out = Success(finish.val)])

(* gradeAnswer from the response of its fetch to its end *)
gradeAnswer_resume(a, resp) ==
  /\ att[a].pc = "fetching"
  /\ att[a].path = "static"
  /\ \E reply \in {GraderReply(att[a].adapter, resp)} :
       att' = [att EXCEPT ![a] =
                 gradeAnswer_end([att[a] EXCEPT !.pc = "done", !.resp = Append(@, resp)], reply)]
  /\ UNCHANGED <<env, probe>>

ServerBegin == \E a \in Attempts, body \in ServerBodies : handleGrade_begin(a, body)

ServerResume ==
  \E a \in Attempts :
    /\ att[a].sent # <<>>
    /\ \E resp \in Responses(att[a].sent[1].host) : handleGrade_resume(a, resp)

GraderBegin == \E a \in Attempts, arg \in GraderArgs : gradeAnswer_begin(a, arg)

GraderResume ==
  \E a \in Attempts :
    /\ att[a].sent # <<>>
    /\ \E resp \in Responses(att[a].sent[1].host) : gradeAnswer_resume(a, resp)

Next == ServerBegin \/ ServerResume \/ GraderBegin \/ GraderResume

Spec == Init /\ [][Next]_vars

----------------------------------------------------------------------------
(* safeJsonParse applied on its own to the texts a model can reply and to  *)
(* values that are not strings                                             *)

MaxPadding == 1

Pad(n) == [i \in 1..n |-> " "]

Payloads ==
  { Chars("{\"a\":1}"), Chars("{\"a\":{\"b\":[1,2]}}"), Chars("[7]"), Chars("5"),
    Chars("\"hi\""), Chars("null"), Chars("{oops}"), Chars("no json") }

(* a payload bare, fenced, fenced with a label, in prose, beside a second  *)
(* object, in an unclosed fence, after an empty fenced block               *)
Wrappings(p) ==
  { p,
    Fence \o p \o Fence,
    Fence \o Chars("json\n") \o p \o Chars("\n") \o Fence,
    Chars("Sure: ") \o Fence \o Chars("JSON ") \o p \o Fence \o Chars(" ok"),
    Fence \o Chars("js\n") \o p \o Fence,
    Chars("Here: ") \o p \o Chars(" done"),
    Fence \o p \o Fence \o Chars(" {\"b\":2}"),
    Chars("{\"b\":2} ") \o Fence \o p \o Fence,
    Fence \o p,
    Fence \o Fence \o p,
    Fence \o p \o Fence \o Chars(" and ") \o Fence \o Chars("[8]") \o Fence }

ExtractTexts ==
  UNION {Wrappings(p) : p \in Payloads}
  \cup BlankTexts
  \cup {Chars("} {"), Chars("{"), Chars("}"), Fence, Fence \o Fence,
        Fence \o Chars("json") \o Fence}

ExtractInputs ==
  {JStr(Pad(n) \o t \o Pad(m)) : t \in ExtractTexts, n \in 0..MaxPadding, m \in 0..MaxPadding}
  \cup {JUndef, JNull, JNum(5), JBool(TRUE), JObj(<<>>), JArr(<<>>)}

InitExtract ==
  /\ env = NoKeysEnv
  /\ att = [a \in Attempts |-> IdleAttempt]
  /\ probe \in {[fn |-> "safeJsonParse", phase |-> "in", text |-> v, run |-> NoRun] :
                  v \in ExtractInputs}

(* const parsed = safeJsonParse(raw) *)
Extract ==
  /\ probe.phase = "in"
  /\ \E r \in {safeJsonParseRun(probe.text)} :
       probe' = [probe EXCEPT !.phase = "out", !.run = r]
  /\ UNCHANGED <<env, att>>

NextExtract == Extract

SpecExtract == InitExtract /\ [][NextExtract]_vars

----------------------------------------------------------------------------
(* Two attempts in flight at once.  The server runs one handleGrade per   *)
(* request and the page one gradeAnswer per click; each is suspended at   *)
(* its await fetch while the other runs.                                  *)

PairAttempts == {"a1", "a2"}

InitPair ==
  /\ env = [NoKeysEnv EXCEPT !.OPENAI_API_KEY = ValidOpenAIKey,
                             !.GEMINI_API_KEY = ValidOtherKey,
                             !.ANTHROPIC_API_KEY = Str("short")]
  /\ att = [a \in PairAttempts |-> IdleAttempt]
  /\ probe = IdleProbe

(* what the upstream at host answers one of the two *)
PairResponses(host) ==
  { FetchRejected }
  \cup {Http(TRUE, 200, d) :
          d \in UNION {SuccessData(host, t) :
                         t \in { Chars("{\"score\":25,\"rationale\":\"ok\"}"),
                                 Chars("{\"score\":7}"),
                                 Chars("{\"score\":\"7\",\"strengths\":[\"s\"]}"),
                                 Chars("not json"),
                                 Chars("  ") }}}

(* the requests: questions of 20 and "10" points, the three providers,   *)
(* the keys of process.env, of which the adapter refuses Anthropic's      *)
PairServerBegin ==
  LET request(questionId, answer, provider) ==
        Body(JStr(KnownSetId), JStr(questionId), Str(answer), Str(provider),
             JUndef, JUndef)
      bodies == { request(K.q1, "my answer", "openai"),
                  request(K.q2, "other answer", "gemini"),
                  request(K.q1, "my answer", "claude") }
  IN  \E a \in PairAttempts, body \in bodies : handleGrade_begin(a, body)

PairServerResume ==
  \E a \in PairAttempts :
    /\ att[a].sent # <<>>
    /\ \E resp \in PairResponses(att[a].sent[1].host) : handleGrade_resume(a, resp)

PairGraderBegin ==
  LET args ==
        { [question |-> QuestionBank[3], answer |-> Str("my answer"),
           provider |-> Str("claude"), model |-> JUndef, apiKey |-> ValidOtherKey],
          [question |-> QuestionBank[1], answer |-> Str("my answer"),
           provider |-> Str("openai"), model |-> JUndef, apiKey |-> ValidOpenAIKey] }
  IN  \E a \in PairAttempts, arg \in args : gradeAnswer_begin(a, arg)

PairGraderResume ==
  \E a \in PairAttempts :
    /\ att[a].sent # <<>>
    /\ \E resp \in PairResponses(att[a].sent[1].host) : gradeAnswer_resume(a, resp)

NextPair == PairServerBegin \/ PairServerResume \/ PairGraderBegin \/ PairGraderResume

SpecPair == InitPair /\ [][NextPair]_vars

----------------------------------------------------------------------------
(* buildGradingMessages (server.js 342-392, grader.js 36-81) *)

(* The string literals of the two prompt builders, one character per      *)
(* element; a character outside ASCII is written u followed by its code   *)
(* point.  contract and contractStatic are JSON.stringify(outputContract, *)
(* null, 2) of server.js 366-382 and of grader.js 58-70.                  *)
Tpl ==
  [ sys1 |->
      <<"u4F60", "u662F", "u535A", "u58EB", "u73ED", "u8CC7", "u683C",
        "u8003", "u300E", "u7814", "u7A76", "u6CD5", "u300F", "u95B1",
        "u5377", "u8001", "u5E2B", "uFF0C", "u76EE", "u6A19", "u662F",
        "u5E6B", "u8003", "u751F", "u7528", "u8003", "u8A66", "u53D6",
        "u5411", "u63D0", "u5347", "u5F97", "u5206", "u3002">>,
    sys2 |->
      <<"u8ACB", "u4F7F", "u7528", "u7E41", "u9AD4", "u4E2D", "u6587",
        "u56DE", "u8986", "u3002">>,
    sys3 |->
      <<"u4F60", "u53EA", "u80FD", "u5F15", "u7528", "/", "u5EFA", "u8B70",
        "u56DE", "u982D", "u95B1", "u8B80", "u300E", "u5B98", "u65B9",
        "u66F8", "u55AE", "u5C0D", "u7167", "u300F", "u4E2D", "u51FA",
        "u73FE", "u7684", "u53C3", "u8003", "u4F86", "u6E90", "uFF1B",
        "u4E0D", "u8981", "u81EA", "u884C", "u675C", "u64B0", "u66F8",
        "u76EE", "u6216", "u7AE0", "u7BC0", "u3002">>,
    sys4 |->
      <<"u8A55", "u5206", "u91CD", "u9EDE", "uFF1A", "u6982", "u5FF5",
        "u6B63", "u78BA", "u3001", "u5C0D", "u9F4A", "u914D", "u5206",
        "u3001", "u7D50", "u69CB", "u6E05", "u695A", "u3001", "u80FD",
        "u8209", "u4F8B", "u6216", "u60C5", "u5883", "u5316", "u3002">>,
    sys5 |->
      <<"u8F38", "u51FA", "u5FC5", "u9808", "u662F", " ", "J", "S", "O",
        "N", "uFF08", "u4E0D", "u8981", " ", "M", "a", "r", "k", "d", "o",
        "w", "n", "u3001", "u4E0D", "u8981", "u591A", "u9918", "u6587",
        "u5B57", "uFF09", "u3002">>,
    headQuestion |->
      <<"u3010", "u984C", "u76EE", "uFF5C">>,
    bar |->
      <<"uFF5C">>,
    points |->
      <<" ", "u5206", "u3011", "\n">>,
    headTopics |->
      <<"\n", "u3010", "u984C", "u76EE", "u5C0D", "u61C9", "u66F8",
        "u55AE", "u4E3B", "u984C", "u3011", "\n", "-", " ">>,
    topicSep |->
      <<"\n", "-", " ">>,
    headElapsed |->
      <<"\n", "u3010", "u4F5C", "u7B54", "u6642", "u9593", "u3011", "\n">>,
    elapsedTail |->
      <<" ", "u79D2", "uFF08", "u50C5", "u4F9B", "u53C3", "u8003", "uFF09">>,
    headAnswer |->
      <<"\n", "u3010", "u8003", "u751F", "u7B54", "u6848", "u3011", "\n">>,
    headNotes |->
      <<"\n", "u3010", "u672C", "u5C08", "u6848", "u91CD", "u9EDE",
        "u7B46", "u8A18", "uFF08", "u6821", "u6B63", "u7528", "uFF1B",
        "u4E0D", "u8981", "u9010", "u5B57", "u5F15", "u7528", "uFF09",
        "u3011", "\n">>,
    headBooklist |->
      <<"\n", "u3010", "u5B98", "u65B9", "u66F8", "u55AE", "u5C0D",
        "u7167", "uFF08", "u53EF", "u5F15", "u7528", "uFF1B", "u4E0D",
        "u53EF", "u675C", "u64B0", "uFF09", "u3011", "\n">>,
    headFormat |->
      <<"\n", "u3010", "u8F38", "u51FA", "u683C", "u5F0F", "uFF08",
        "u5FC5", "u9808", "u7B26", "u5408", "uFF09", "u3011", "\n">>,
    requirement |->
      <<"\n", "u3010", "u8981", "u6C42", "u3011", "s", "c", "o", "r", "e",
        " ", "u4E0D", "u5F97", "u8D85", "u904E", " ", "m", "a", "x", "S",
        "c", "o", "r", "e", "uFF1B", "u82E5", "u7B54", "u6848", "u660E",
        "u986F", "u96E2", "u984C", "/", "u932F", "u8AA4", "uFF0C", "u8ACB",
        "u76F4", "u63A5", "u9EDE", "u51FA", "u4E26", "u7D66", "u6700",
        "u77ED", "u53EF", "u88DC", "u6551", "u7248", "u672C", "u3002">>,
    contract |->
      <<"{", "\n", " ", " ", "\"", "s", "c", "o", "r", "e", "\"", ":", " ",
        "\"", "n", "u", "m", "b", "e", "r", " ", "(", "0", ".", ".", "m",
        "a", "x", "S", "c", "o", "r", "e", ",", " ", "p", "r", "e", "f",
        "e", "r", "a", "b", "l", "y", " ", "i", "n", "t", "e", "g", "e",
        "r", ")", "\"", ",", "\n", " ", " ", "\"", "m", "a", "x", "S", "c",
        "o", "r", "e", "\"", ":", " ", "\"", "n", "u", "m", "b", "e", "r",
        "\"", ",", "\n", " ", " ", "\"", "r", "a", "t", "i", "o", "n", "a",
        "l", "e", "\"", ":", " ", "\"", "s", "t", "r", "i", "n", "g", " ",
        "(", "u7E3D", "u8A55", "uFF0C", "1", "0", "0", "~", "2", "0", "0",
        "u5B57", ")", "\"", ",", "\n", " ", " ", "\"", "s", "t", "r", "e",
        "n", "g", "t", "h", "s", "\"", ":", " ", "\"", "s", "t", "r", "i",
        "n", "g", "[", "]", "\"", ",", "\n", " ", " ", "\"", "m", "i", "s",
        "s", "i", "n", "g", "P", "o", "i", "n", "t", "s", "\"", ":", " ",
        "\"", "s", "t", "r", "i", "n", "g", "[", "]", "\"", ",", "\n", " ",
        " ", "\"", "i", "m", "p", "r", "o", "v", "e", "m", "e", "n", "t",
        "s", "\"", ":", " ", "\"", "s", "t", "r", "i", "n", "g", "[", "]",
        "\"", ",", "\n", " ", " ", "\"", "s", "u", "g", "g", "e", "s", "t",
        "e", "d", "O", "u", "t", "l", "i", "n", "e", "\"", ":", " ", "\"",
        "s", "t", "r", "i", "n", "g", "[", "]", " ", "(", "u7528", "u53EF",
        "u76F4", "u63A5", "u6284", "u5BEB", "u7684", "u7B54", "u984C",
        "u6BB5", "u843D", "u9AA8", "u67B6", ")", "\"", ",", "\n", " ", " ",
        "\"", "b", "o", "o", "k", "l", "i", "s", "t", "A", "l", "i", "g",
        "n", "m", "e", "n", "t", "\"", ":", " ", "{", "\n", " ", " ", " ",
        " ", "\"", "t", "o", "p", "i", "c", "s", "\"", ":", " ", "\"", "s",
        "t", "r", "i", "n", "g", "[", "]", " ", "(", "u5F9E", "u984C",
        "u76EE", "u5C0D", "u61C9", "u4E3B", "u984C", "u6311", ")", "\"",
        ",", "\n", " ", " ", " ", " ", "\"", "r", "e", "f", "s", "T", "o",
        "R", "e", "v", "i", "e", "w", "\"", ":", " ", "\"", "s", "t", "r",
        "i", "n", "g", "[", "]", " ", "(", "u53EA", "u80FD", "u5F9E",
        "u5B98", "u65B9", "u66F8", "u55AE", "u5C0D", "u7167", "u51FA",
        "u73FE", "u904E", "u7684", "u689D", "u76EE", "u6311", ")", "\"",
        "\n", " ", " ", "}", ",", "\n", " ", " ", "\"", "n", "e", "x", "t",
        "D", "r", "i", "l", "l", "\"", ":", " ", "{", "\n", " ", " ", " ",
        " ", "\"", "p", "r", "o", "m", "p", "t", "\"", ":", " ", "\"", "s",
        "t", "r", "i", "n", "g", " ", "(", "u4E0B", "u4E00", "u984C",
        "u7DF4", "u7FD2", "u984C", "uFF0C", "u8ACB", "u4F60", "u51FA",
        "u4E00", "u984C", "u540C", "u984C", "u578B", "u4F46", "u63DB",
        "u60C5", "u5883", "u7684", "u984C", "u76EE", ")", "\"", ",", "\n",
        " ", " ", " ", " ", "\"", "t", "i", "m", "e", "b", "o", "x", "M",
        "i", "n", "u", "t", "e", "s", "\"", ":", " ", "\"", "n", "u", "m",
        "b", "e", "r", " ", "(", "u5EFA", "u8B70", "u7DF4", "u7FD2",
        "u6642", "u9593", ")", "\"", "\n", " ", " ", "}", "\n", "}">>,
    contractStatic |->
      <<"{", "\n", " ", " ", "\"", "s", "c", "o", "r", "e", "\"", ":", " ",
        "\"", "n", "u", "m", "b", "e", "r", " ", "(", "0", ".", ".", "m",
        "a", "x", "S", "c", "o", "r", "e", ",", " ", "p", "r", "e", "f",
        "e", "r", "a", "b", "l", "y", " ", "i", "n", "t", "e", "g", "e",
        "r", ")", "\"", ",", "\n", " ", " ", "\"", "m", "a", "x", "S", "c",
        "o", "r", "e", "\"", ":", " ", "\"", "n", "u", "m", "b", "e", "r",
        "\"", ",", "\n", " ", " ", "\"", "r", "a", "t", "i", "o", "n", "a",
        "l", "e", "\"", ":", " ", "\"", "s", "t", "r", "i", "n", "g", " ",
        "(", "u7E3D", "u8A55", "uFF0C", "1", "0", "0", "~", "2", "0", "0",
        "u5B57", ")", "\"", ",", "\n", " ", " ", "\"", "s", "t", "r", "e",
        "n", "g", "t", "h", "s", "\"", ":", " ", "\"", "s", "t", "r", "i",
        "n", "g", "[", "]", "\"", ",", "\n", " ", " ", "\"", "m", "i", "s",
        "s", "i", "n", "g", "P", "o", "i", "n", "t", "s", "\"", ":", " ",
        "\"", "s", "t", "r", "i", "n", "g", "[", "]", "\"", ",", "\n", " ",
        " ", "\"", "i", "m", "p", "r", "o", "v", "e", "m", "e", "n", "t",
        "s", "\"", ":", " ", "\"", "s", "t", "r", "i", "n", "g", "[", "]",
        "\"", ",", "\n", " ", " ", "\"", "s", "u", "g", "g", "e", "s", "t",
        "e", "d", "O", "u", "t", "l", "i", "n", "e", "\"", ":", " ", "\"",
        "s", "t", "r", "i", "n", "g", "[", "]", " ", "(", "u7528", "u53EF",
        "u76F4", "u63A5", "u6284", "u5BEB", "u7684", "u7B54", "u984C",
        "u6BB5", "u843D", "u9AA8", "u67B6", ")", "\"", ",", "\n", " ", " ",
        "\"", "n", "e", "x", "t", "D", "r", "i", "l", "l", "\"", ":", " ",
        "{", "\n", " ", " ", " ", " ", "\"", "p", "r", "o", "m", "p", "t",
        "\"", ":", " ", "\"", "s", "t", "r", "i", "n", "g", " ", "(",
        "u4E0B", "u4E00", "u984C", "u7DF4", "u7FD2", "u984C", "uFF0C",
        "u8ACB", "u4F60", "u51FA", "u4E00", "u984C", "u540C", "u984C",
        "u578B", "u4F46", "u63DB", "u60C5", "u5883", "u7684", "u984C",
        "u76EE", ")", "\"", ",", "\n", " ", " ", " ", " ", "\"", "t", "i",
        "m", "e", "b", "o", "x", "M", "i", "n", "u", "t", "e", "s", "\"",
        ":", " ", "\"", "n", "u", "m", "b", "e", "r", " ", "(", "u5EFA",
        "u8B70", "u7DF4", "u7FD2", "u6642", "u9593", ")", "\"", "\n", " ",
        " ", "}", "\n", "}">> ]

(* v.length *)
LengthOf(v) ==
  CASE v.t = "arr" -> JNum(Len(v.a))
    [] v.t = "str" -> JNum(Len(v.s))
    [] OTHER -> GetProp(v, K.length)

(* if (question.booklistTopics?.length) userParts.push(...): the parts    *)
(* pushed; join is a method of arrays only                                *)
TopicsPart(question) ==
  LET topics == GetProp(question, K.booklistTopics)
  IN  IF topics.t \in {"undef", "null"} \/ ~Truthy(LengthOf(topics))
      THEN Returned(<<>>)
      ELSE IF ~IsArray(topics)
      THEN Thrown("TypeError", Chars("question.booklistTopics.join is not a function"))
      ELSE Returned(<<JStr(Tpl.headTopics \o JoinFrom(topics.a, 1, Tpl.topicSep))>>)

(* the answer part pushed without the answer *)
AnswerPart_headingOnly(answer) == JStr(Tpl.headAnswer)

(* the part pushed for the answer; a template literal converts as String  *)
AnswerPart(answer) == JStr(Tpl.headAnswer \o JsString(answer))

(* buildGradingMessages of server.js; in is the destructured argument *)
buildGradingMessages(in) ==
  IF in.question.t \in {"undef", "null"}
  THEN Thrown("TypeError", Chars("Cannot read properties of undefined"))
  ELSE
  LET system == JoinFrom(<<JStr(Tpl.sys1), JStr(Tpl.sys2), JStr(Tpl.sys3),
                           JStr(Tpl.sys4), JStr(Tpl.sys5)>>, 1, <<"\n">>)
      topics == TopicsPart(in.question)
      userParts ==
        <<JStr(Tpl.headQuestion \o JsString(GetProp(in.question, K.section))
               \o Tpl.bar \o JsString(in.maxScore) \o Tpl.points
               \o JsString(GetProp(in.question, K.text)))>>
        \o topics.val
        \o (IF TypeOf(in.elapsedSeconds) = "number"
            THEN <<JStr(Tpl.headElapsed \o JsString(in.elapsedSeconds)
                        \o Tpl.elapsedTail)>>
            ELSE <<>>)
        \o <<AnswerPart(in.answer)>>
        \o (IF Truthy(in.notesSnippet)
            THEN <<JStr(Tpl.headNotes \o JsString(in.notesSnippet))>> ELSE <<>>)
        \o (IF Truthy(in.booklistSnippet)
            THEN <<JStr(Tpl.headBooklist \o JsString(in.booklistSnippet))>> ELSE <<>>)
        \o <<JStr(Tpl.headFormat \o Tpl.contract), JStr(Tpl.requirement)>>
  IN  IF topics.threw THEN topics
      ELSE Returned(JArr(<<
             JObj(<<P(K.role, JStr(K.system)), P(K.content, JStr(system))>>),
             JObj(<<P(K.role, JStr(K.user)),
                    P(K.content, JStr(JoinFrom(userParts, 1, <<"\n", "\n">>)))>>) >>))

(* buildGradingMessages of grader.js: no notesSnippet, no booklistSnippet *)
grader_buildGradingMessages(in) ==
  IF in.question.t \in {"undef", "null"}
  THEN Thrown("TypeError", Chars("Cannot read properties of undefined"))
  ELSE
  LET system == JoinFrom(<<JStr(Tpl.sys1), JStr(Tpl.sys2), JStr(Tpl.sys4),
                           JStr(Tpl.sys5)>>, 1, <<"\n">>)
      topics == TopicsPart(in.question)
      userParts ==
        <<JStr(Tpl.headQuestion \o JsString(GetProp(in.question, K.section))
               \o Tpl.bar \o JsString(in.maxScore) \o Tpl.points
               \o JsString(GetProp(in.question, K.text)))>>
        \o topics.val
        \o (IF TypeOf(in.elapsedSeconds) = "number"
            THEN <<JStr(Tpl.headElapsed \o JsString(in.elapsedSeconds)
                        \o Tpl.elapsedTail)>>
            ELSE <<>>)
        \o <<AnswerPart(in.answer)>>
        \o <<JStr(Tpl.headFormat \o Tpl.contractStatic), JStr(Tpl.requirement)>>
  IN  IF topics.threw THEN topics
      ELSE Returned(JArr(<<
             JObj(<<P(K.role, JStr(K.system)), P(K.content, JStr(system))>>),
             JObj(<<P(K.role, JStr(K.user)),
                    P(K.content, JStr(JoinFrom(userParts, 1, <<"\n", "\n">>)))>>) >>))

----------------------------------------------------------------------------
(* Functions of the core applied on their own.  probe.text is the         *)
(* argument, probe.run what the function returned.                        *)

RECURSIVE JSONstringify(_)
(* JSON.stringify(v) of a JSON value: the compact text, no whitespace *)
JSONstringify(v) ==
  LET RECURSIVE Elems(_)
      Elems(i) == IF i > Len(v.a) THEN <<>>
                  ELSE (IF i > 1 THEN <<",">> ELSE <<>>)
                       \o JSONstringify(v.a[i]) \o Elems(i + 1)
      RECURSIVE Members(_)
      Members(i) == IF i > Len(v.o) THEN <<>>
                    ELSE (IF i > 1 THEN <<",">> ELSE <<>>)
                         \o <<"\"">> \o v.o[i].k \o <<"\"", ":">>
                         \o JSONstringify(v.o[i].v) \o Members(i + 1)
  IN  CASE v.t = "null" -> K.null
        [] v.t = "bool" -> (IF v.n = 1 THEN K.true ELSE K.false)
        [] v.t = "num" -> IntToChars(v.n)
        [] v.t = "str" -> <<"\"">> \o v.s \o <<"\"">>
        [] v.t = "arr" -> <<"[">> \o Elems(1) \o <<"]">>
        [] v.t = "obj" -> <<"{">> \o Members(1) \o <<"}">>

(* The arguments of the round trip: a value a model can be asked to     *)
(* reply, in the fenced form or between a prefix and a suffix            *)
RoundTripInputs ==
  LET values ==
        { JObj(<<P(K.score, JNum(7)), P(K.rationale, Str("ok"))>>),
          JObj(<<P(K.score, JNum(-3)),
                 P(K.text, JArr(<<JObj(<<P(K.raw, Str("b c"))>>)>>))>>),
          JObj(<<P(K.rationale, Str("a } b"))>>),
          JObj(<<P(K.rationale, JStr(Fence \o Chars("5") \o Fence))>>),
          JObj(<<>>),
          JArr(<<JNum(1), JObj(<<P(K.text, JNull)>>)>>),
          JArr(<<>>),
          JNum(5), JNum(0), Str("hi"), Str(""), JStr(Fence),
          JBool(TRUE), JBool(FALSE), JNull }
      prefixes ==
        { <<>>, Chars("  "), Chars("Here: "), Chars("See {1}: "),
          Chars("["), Chars("\""), Fence \o Chars("[8]") \o Fence \o Chars(" ") }
      suffixes ==
        { <<>>, Chars("\n"), Chars(" done."), Chars(" }."), Chars("]"), Chars("\"") }
  IN  {[v |-> v, form |-> "fenced", prefix |-> Fence \o Chars("json\n"),
        suffix |-> Chars("\n") \o Fence] : v \in values}
      \cup {[v |-> v, form |-> "embedded", prefix |-> pre, suffix |-> suf] :
              v \in values, pre \in prefixes, suf \in suffixes}

(* the arguments buildGradingMessages is applied to *)
BuildInputs ==
  LET question(more) ==
        JObj(<<P(K.section, Str("A")), P(K.text, Str("Define validity?"))>> \o more)
      questions ==
        { question(<<>>),
          question(<<P(K.booklistTopics, JArr(<<>>))>>),
          question(<<P(K.booklistTopics, JArr(<<Str("t1"), Str("t2")>>))>>),
          question(<<P(K.booklistTopics, JNull)>>),
          JObj(<<>>) }
  IN  [ path : {"server", "static"},
        question : questions,
        answer : {Str("my answer"), Str("20"), Str("x\n7 y")},
        maxScore : {JNum(0), JNum(7), JNum(20)},
        elapsedSeconds : {JUndef, JNum(0), JNum(90)},
        notesSnippet : {JUndef, JNull, Str("note")},
        booklistSnippet : {JNull, Str("ref")} ]

InitPure ==
  /\ env = NoKeysEnv
  /\ att = [a \in Attempts |-> IdleAttempt]
  /\ probe \in {[fn |-> "roundTrip", phase |-> "in", text |-> x, run |-> JUndef] :
                  x \in RoundTripInputs}
          \cup {[fn |-> "buildGradingMessages", phase |-> "in", text |-> x,
                 run |-> JUndef] : x \in BuildInputs}

(* safeJsonParse(prefix + JSON.stringify(v) + suffix) *)
RoundTrip ==
  /\ probe.fn = "roundTrip"
  /\ probe.phase = "in"
  /\ \E r \in {safeJsonParse(JStr(probe.text.prefix \o JSONstringify(probe.text.v)
                                  \o probe.text.suffix))} :
       probe' = [probe EXCEPT !.phase = "out", !.run = r]
  /\ UNCHANGED <<env, att>>

(* buildGradingMessages({question, answer, maxScore, ...}) of the path *)
BuildMessages ==
  /\ probe.fn = "buildGradingMessages"
  /\ probe.phase = "in"
  /\ \E r \in {IF probe.text.path = "server" THEN buildGradingMessages(probe.text)
               ELSE grader_buildGradingMessages(probe.text)} :
       probe' = [probe EXCEPT !.phase = "out", !.run = r]
  /\ UNCHANGED <<env, att>>

NextPure == RoundTrip \/ BuildMessages

SpecPure == InitPure /\ [][NextPure]_vars

----------------------------------------------------------------------------
(* Reading an attempt *)

Done(a) == att[a].pc = "done"

Succeeded(a) == att[a].out.kind = "success"

Failed(a) == att[a].out.kind = "failure"

(* the result and the raw text the caller finds in what it was given *)
ResultOf(a) == GetProp(att[a].out.body, K.result)

Ran(a, component) == \E i \in 1..Len(att[a].log) : att[a].log[i] = component

(* the question the attempt is about *)
QuestionOf(a) ==
  IF att[a].path = "static" THEN att[a].req.question
  ELSE QuestionBank[FindQuestion(QuestionBank, Trim(JsString(att[a].req.questionId)))]

(* the text the adapter handed back to the orchestrator *)
RawOf(a) ==
  IF att[a].path = "static" THEN GraderReply(att[a].adapter, att[a].resp[1]).val
  ELSE ServerReply(att[a].adapter, att[a].resp[1]).val

(* the value the extractor produced from that text *)
ParsedOf(a) == safeJsonParse(RawOf(a))

IsStringSeq(v) == IsArray(v) /\ v.o = <<>> /\ \A i \in 1..Len(v.a) : v.a[i].t = "str"

----------------------------------------------------------------------------
(* C1: whenever a grading attempt returns a result, its score is a number  *)
(* with 0 <= score <= maxScore and its maxScore is the question's point    *)
(* value, Number(question.points) or 0.                                    *)
C1_ScoreWithinMaxScore ==
  \A a \in Attempts :
    Succeeded(a) =>
      LET r == ResultOf(a)
          points == Or(ToNumber(QuestionOf(a).points), JNum(0))
      IN  /\ IsFinite(GetProp(r, K.score))
          /\ 0 <= GetProp(r, K.score).n
          /\ GetProp(r, K.score).n <= points.n
          /\ GetProp(r, K.maxScore) = points

(* C2: in every result that leaves a grading attempt each of the six      *)
(* array-typed fields is present and is a sequence of strings.            *)
C2_ArrayFieldsAreStringSequences ==
  \A a \in Attempts :
    Succeeded(a) =>
      LET r == ResultOf(a)
          b == GetProp(r, K.booklistAlignment)
      IN  /\ \A i \in 1..Len(ArrayFields) : IsStringSeq(GetProp(r, ArrayFields[i]))
          /\ IsStringSeq(GetProp(b, K.topics))
          /\ IsStringSeq(GetProp(b, K.refsToReview))

(* the result is the degenerate fallback for maxScore: score 0, the given *)
(* maxScore, a fixed could-not-parse rationale, empty or default fields   *)
IsFallbackResult(r, maxScore) ==
  /\ GetProp(r, K.score) = JNum(0)
  /\ GetProp(r, K.maxScore) = maxScore
  /\ GetProp(r, K.rationale) \in {JStr(ServerNotJsonRationale), JStr(GraderNotParsedRationale)}
  /\ \A i \in 1..Len(r.o) :
       \/ r.o[i].k \in {K.score, K.maxScore, K.rationale}
       \/ r.o[i].k \in {ArrayFields[j] : j \in 1..Len(ArrayFields)} /\ r.o[i].v = EmptyArray
       \/ r.o[i].k = K.booklistAlignment /\ r.o[i].v = DefaultBooklistAlignment
       \/ /\ r.o[i].k = K.nextDrill
          /\ GetProp(r.o[i].v, K.prompt) = JStr(<<>>)
          /\ IsFinite(GetProp(r.o[i].v, K.timeboxMinutes))

(* C3: when the extractor returns null for the raw reply, the attempt     *)
(* succeeds (HTTP 200 on the server) and returns {result, raw}: result is *)
(* the degenerate fallback and raw, next to result, is the reply text.    *)
C3_NullExtractionGivesFallbackAndRaw ==
  \A a \in Attempts :
    (Done(a) /\ Ran(a, "extract") /\ ParsedOf(a) = JNull) =>
      /\ Succeeded(a)
      /\ att[a].path = "server" => att[a].out.status = 200
      /\ IsFallbackResult(ResultOf(a), att[a].maxScore)
      /\ GetProp(att[a].out.body, K.raw) = RawOf(a)

(* C4: the normalization step never raises: whatever value the extractor  *)
(* produced that reaches it, the attempt returns a result carrying score, *)
(* maxScore, the four array fields, booklistAlignment and nextDrill.      *)
C4_NormalizationNeverRaises ==
  \A a \in Attempts :
    (Done(a) /\ Ran(a, "normalize")) =>
      /\ Succeeded(a)
      /\ \A k \in {K.score, K.maxScore, K.booklistAlignment, K.nextDrill}
                  \cup {ArrayFields[j] : j \in 1..Len(ArrayFields)} :
           HasProp(ResultOf(a), k)

----------------------------------------------------------------------------
(* Reading the adapter call of an attempt *)

AdapterCalled(a) == att[a].adapter # "none"

AdapterFailed(a) == att[a].raised.threw

(* how many times the component was run *)
Count(a, component) ==
  Cardinality({i \in 1..Len(att[a].log) : att[a].log[i] = component})

HostOf(adapter) ==
  IF adapter = "google" THEN "generativelanguage.googleapis.com"
  ELSE IF adapter = "claude" THEN "api.anthropic.com"
  ELSE "api.openai.com"

(* C5: when the adapter fails, the attempt ends in that failure with the  *)
(* adapter's message (on the server as the error of an HTTP 500 answer):  *)
(* the adapter was called once, at most one upstream call was made, no    *)
(* extractor, normalizer or fallback ran, and no result is returned.      *)
C5_AdapterFailurePropagates ==
  \A a \in Attempts :
    AdapterFailed(a) =>
      /\ Done(a)
      /\ Failed(a)
      /\ att[a].out.msg = att[a].raised.msg
      /\ att[a].path = "server" =>
           /\ att[a].out.status = 500
           /\ att[a].out.body = ErrorBody(att[a].raised.msg)
      /\ Count(a, "adapter") = 1
      /\ Len(att[a].sent) <= 1
      /\ \A i \in 1..Len(att[a].sent) : att[a].sent[i].host = HostOf(att[a].adapter)
      /\ ~Ran(a, "extract") /\ ~Ran(a, "normalize") /\ ~Ran(a, "fallback")
      /\ ResultOf(a) = JUndef

(* an adapter failed after its upstream call came back empty, on the server *)
C5_Witness ==
  \E a \in Attempts :
    /\ Done(a)
    /\ att[a].path = "server"
    /\ AdapterFailed(a)
    /\ att[a].raised.class = "EmptyReply"
    /\ Len(att[a].resp) = 1

(* the request carries no credential, and the environment has none for    *)
(* the adapter (the in-browser path has no other source)                  *)
NoCredential(a) ==
  /\ ~Truthy(att[a].req.apiKey)
  /\ att[a].path = "server" =>
       /\ att[a].adapter = "openai" => ~Truthy(env.OPENAI_API_KEY)
       /\ att[a].adapter = "google" =>
            ~Truthy(env.GOOGLE_API_KEY) /\ ~Truthy(env.GEMINI_API_KEY)
       /\ att[a].adapter = "claude" => ~Truthy(env.ANTHROPIC_API_KEY)

(* C6: an adapter called with no credential in the request and none in    *)
(* the environment fails with MissingCredential, and the attempt has      *)
(* issued no upstream call.                                               *)
C6_MissingCredentialBeforeNetwork ==
  \A a \in Attempts :
    (AdapterCalled(a) /\ NoCredential(a)) =>
      /\ Done(a)
      /\ AdapterFailed(a)
      /\ att[a].raised.class = "MissingCredential"
      /\ att[a].sent = <<>>
      /\ att[a].resp = <<>>
      /\ ~Ran(a, "fetch")

(* the Google adapter of the server was called with no credential anywhere *)
C6_Witness ==
  \E a \in Attempts :
    /\ att[a].path = "server"
    /\ att[a].adapter = "google"
    /\ NoCredential(a)
    /\ att[a].raised.class = "MissingCredential"

(* the upstream answered with success and the text of the answer is       *)
(* missing, empty or whitespace only                                      *)
BlankExtracted(a) ==
  /\ Len(att[a].resp) >= 1
  /\ ~att[a].resp[1].rejected
  /\ att[a].resp[1].ok
  /\ \/ att[a].resp[1].data = JObj(<<>>)
     \/ att[a].resp[1].data \in
          UNION {SuccessData(att[a].sent[1].host, t) : t \in BlankTexts}

(* C7: in every adapter of both paths a successful response whose text is *)
(* empty or whitespace only makes the adapter fail with EmptyReply; the   *)
(* text does not reach the extractor and no fallback result is returned.  *)
C7_BlankTextIsEmptyReply ==
  \A a \in Attempts :
    BlankExtracted(a) =>
      /\ AdapterFailed(a)
      /\ att[a].raised.class = "EmptyReply"
      /\ Failed(a)
      /\ ~Ran(a, "extract") /\ ~Ran(a, "fallback")
      /\ ResultOf(a) = JUndef

(* the adapter and the upstream host of an attempt agree, and the adapter *)
(* was called once                                                        *)
OneAdapter(a) ==
  /\ Count(a, "adapter") = 1
  /\ \A i \in 1..Len(att[a].sent) : att[a].sent[i].host = HostOf(att[a].adapter)

(* the selector of the request, as text *)
SelectorOf(a) ==
  IF att[a].req.provider.t = "str" THEN att[a].req.provider.s ELSE <<>>

(* C8 as stated: the Google adapter for the selector google, the Claude   *)
(* adapter for the selector claude, the OpenAI adapter for every other    *)
(* selector, absent included.                                             *)
C8_DispatchBySelectorAsGiven ==
  \A a \in Attempts :
    AdapterCalled(a) =>
      /\ OneAdapter(a)
      /\ att[a].adapter =
           IF SelectorOf(a) = K.google THEN "google"
           ELSE IF SelectorOf(a) = K.claude THEN "claude"
           ELSE "openai"

GoogleSelectors == {K.google, K.gemini}

ClaudeSelectors == {K.claude, K.anthropic}

(* C8 amended: the in-browser path compares the selector as given with    *)
(* google and claude; the server first trims and lower-cases it and also  *)
(* takes gemini for google and anthropic for claude; every other selector, *)
(* absent included, goes to the OpenAI adapter.                           *)
C8_DispatchBySelector ==
  \A a \in Attempts :
    AdapterCalled(a) =>
      LET word == IF att[a].path = "server"
                  THEN Trim(ToLowerCase(SelectorOf(a)))
                  ELSE SelectorOf(a)
          known == IF att[a].path = "server"
                   THEN [google |-> GoogleSelectors, claude |-> ClaudeSelectors]
                   ELSE [google |-> {K.google}, claude |-> {K.claude}]
      IN  /\ OneAdapter(a)
          /\ att[a].adapter =
               IF word \in known.google THEN "google"
               ELSE IF word \in known.claude THEN "claude"
               ELSE "openai"

(* the server sent a request with the selector gemini to the Google       *)
(* upstream                                                               *)
C8_Witness ==
  \E a \in Attempts :
    /\ att[a].path = "server"
    /\ SelectorOf(a) = K.gemini
    /\ Len(att[a].sent) = 1
    /\ att[a].sent[1].host = HostOf("google")

(* the adapter stopped at its credential or model check *)
ChecksFailed(a) ==
  /\ AdapterFailed(a)
  /\ att[a].raised.class \in {"MissingCredential", "InvalidCredentialFormat", "ModelError"}

(* C9: an attempt issues at most one upstream call, and exactly one once  *)
(* the adapter's credential and model checks passed; whatever the answer, *)
(* the finished attempt has made one call and received one response.      *)
C9_AtMostOneUpstreamCall ==
  \A a \in Attempts :
    /\ Len(att[a].sent) <= 1
    /\ Len(att[a].resp) <= Len(att[a].sent)
    /\ AdapterCalled(a) => (Len(att[a].sent) = 1 <=> ~ChecksFailed(a))
    /\ ~AdapterCalled(a) => att[a].sent = <<>>
    /\ (Done(a) /\ att[a].sent # <<>>) => Len(att[a].resp) = 1

(* an attempt ended in the fallback after an unparseable reply, with one  *)
(* upstream call made                                                     *)
C9_Witness ==
  \E a \in Attempts :
    /\ Done(a)
    /\ Ran(a, "fallback")
    /\ Len(att[a].sent) = 1
    /\ Len(att[a].resp) = 1

----------------------------------------------------------------------------
(* The three strategies of the extractor, read from the text alone.  A    *)
(* candidate is [has, text]: whether the strategy has a text to parse,    *)
(* and that text.                                                         *)

Least(S) == CHOOSE x \in S : \A y \in S : x <= y

Greatest(S) == CHOOSE x \in S : \A y \in S : x >= y

FenceStarts(t) == {i \in 1..(Len(t) - 2) : MatchAt(t, Fence, i)}

WholeCandidate(t) == [has |-> TRUE, text |-> t]

(* the content of the first fenced block, its label json left out *)
FencedCandidate(t) ==
  IF FenceStarts(t) = {} THEN [has |-> FALSE, text |-> <<>>]
  ELSE LET open == Least(FenceStarts(t))
           start == IF ToLowerCase(Slice(t, open + 3, open + 6)) = K.json
                    THEN open + 7 ELSE open + 3
           closes == {j \in FenceStarts(t) : j >= start}
       IN  IF closes = {} THEN [has |-> FALSE, text |-> <<>>]
           ELSE [has |-> TRUE, text |-> Trim(Slice(t, start, Least(closes) - 1))]

(* from the first opening brace to the last closing brace *)
BracesCandidate(t) ==
  LET opens == {i \in 1..Len(t) : t[i] = "{"}
      closes == {i \in 1..Len(t) : t[i] = "}"}
  IN  IF opens = {} \/ closes = {} THEN [has |-> FALSE, text |-> <<>>]
      ELSE IF Greatest(closes) < Least(opens) THEN [has |-> FALSE, text |-> <<>>]
      ELSE [has |-> TRUE, text |-> Slice(t, Least(opens), Greatest(closes))]

Candidates(t) == <<WholeCandidate(t), FencedCandidate(t), BracesCandidate(t)>>

(* C10: safeJsonParse returns the parse of the first of the whole trimmed *)
(* text, the content of the first fenced block and the first-brace to     *)
(* last-brace substring that parses; it parses a later one only when      *)
(* every earlier one failed; it returns null when none parses, when the   *)
(* input is not a string and when it is blank.                            *)
C10_ExtractorStrategiesInOrder ==
  probe.phase = "out" =>
    \E cand \in {Candidates(Trim(probe.text.s))} :
      LET run == probe.run
          Parses(k) == cand[k].has /\ JSONparse(cand[k].text).ok
      IN  IF probe.text.t # "str" \/ Trim(probe.text.s) = <<>>
          THEN run.v = JNull /\ run.by = 0 /\ run.tried = {}
          ELSE /\ run.by \in 0..3
               /\ run.tried \subseteq 1..3
               /\ run.by = 0 => (run.v = JNull /\ \A k \in 1..3 : ~Parses(k))
               /\ run.by # 0 =>
                    /\ Parses(run.by)
                    /\ run.v = JSONparse(cand[run.by].text).v
                    /\ run.by \in run.tried
                    /\ \A j \in 1..(run.by - 1) : ~Parses(j)
               /\ \A k \in run.tried :
                    cand[k].has /\ \A j \in 1..(k - 1) : ~Parses(j)

(* the fenced block was parsed and failed, and the braces gave the value *)
C10_Witness ==
  /\ probe.phase = "out"
  /\ probe.run.by = 3
  /\ probe.run.tried = {1, 2, 3}
  /\ probe.run.v # JNull

----------------------------------------------------------------------------
(* the text holds none of the characters *)
HasNone(text, chars) == \A i \in 1..Len(text) : text[i] \notin chars

Blank(text) == \A i \in 1..Len(text) : text[i] \in WhiteSpace

(* C11 as stated: safeJsonParse of the fenced form of JSON.stringify(v)   *)
(* and of JSON.stringify(v) between any prefix and suffix returns a value *)
(* equal to v.                                                            *)
C11_RoundTripAnyText ==
  (probe.fn = "roundTrip" /\ probe.phase = "out") => probe.run = probe.text.v

(* C11 amended: when JSON.stringify(v) holds no fence, the fenced form    *)
(* returns v; the embedded form returns v when prefix and suffix are      *)
(* blank, or when v is an object and prefix and suffix hold no brace, no  *)
(* bracket, no double quote and no backquote.                             *)
C11_RoundTrip ==
  (probe.fn = "roundTrip" /\ probe.phase = "out") =>
    \E x \in {probe.text} :
      (/\ ~Includes(JSONstringify(x.v), Fence)
       /\ \/ x.form = "fenced"
          \/ Blank(x.prefix) /\ Blank(x.suffix)
          \/ /\ x.v.t = "obj"
             /\ HasNone(x.prefix \o x.suffix, {"{", "}", "[", "]", "\"", BQ}))
      => probe.run = x.v

(* an object came back from between a prose prefix and a prose suffix *)
C11_Witness ==
  /\ probe.fn = "roundTrip"
  /\ probe.phase = "out"
  /\ probe.text.form = "embedded"
  /\ probe.text.prefix = Chars("Here: ")
  /\ probe.text.suffix = Chars(" done.")
  /\ probe.text.v.t = "obj"
  /\ probe.text.v.o # <<>>
  /\ probe.run = probe.text.v

----------------------------------------------------------------------------
(* the normalization step of the attempt's path applied to value v *)
Normalize(a, v) ==
  IF att[a].path = "server" THEN handleGrade_normalize(v, att[a].maxScore)
  ELSE gradeAnswer_normalize(v, att[a].maxScore)

(* C12: normalizing, with the same maxScore, the result the normalization *)
(* step produced gives that result again, field by field; so does         *)
(* normalizing the result as the client of the server received it.        *)
C12_NormalizationIdempotent ==
  \A a \in Attempts :
    (Succeeded(a) /\ Ran(a, "normalize")) =>
      \E once \in {Normalize(a, ParsedOf(a))} :
        /\ ~once.threw
        /\ Normalize(a, once.val) = once
        /\ att[a].path = "server" =>
             \E again \in {Normalize(a, ResultOf(a))} :
               ~again.threw /\ Wire(again.val) = ResultOf(a)
        /\ att[a].path = "static" => once.val = ResultOf(a)

(* the server normalized a reply it had to change *)
C12_Witness ==
  \E a \in Attempts :
    /\ Succeeded(a)
    /\ Ran(a, "normalize")
    /\ att[a].path = "server"
    /\ ParsedOf(a).t = "obj"
    /\ Wire(ParsedOf(a)) # ResultOf(a)
    /\ GetProp(ParsedOf(a), K.score) = JNum(25)
    /\ GetProp(ResultOf(a), K.score) = JNum(20)

----------------------------------------------------------------------------
(* the model's reply carried no nextDrill, or one that is not an object *)
NextDrillMissing(v) ==
  \E d \in {GetProp(v, K.nextDrill)} : ~Truthy(d) \/ d.t # "obj"

(* C13: a result the server normalized from an object reply carries       *)
(* nextDrill as an object with a string prompt and timeboxMinutes within  *)
(* 5..120, and exactly {prompt: "", timeboxMinutes: 15} when the reply's  *)
(* nextDrill was absent or not an object.                                 *)
C13_NextDrillNormalized ==
  \A a \in Attempts :
    (Succeeded(a) /\ Ran(a, "normalize") /\ att[a].path = "server"
       /\ ParsedOf(a).t = "obj") =>
      \E d \in {GetProp(ResultOf(a), K.nextDrill)} :
        /\ d.t = "obj"
        /\ GetProp(d, K.prompt).t = "str"
        /\ GetProp(d, K.timeboxMinutes).t = "num"
        /\ GetProp(d, K.timeboxMinutes).n \in TimeboxMin..TimeboxMax
        /\ NextDrillMissing(ParsedOf(a)) =>
             d = JObj(<<P(K.prompt, JStr(<<>>)),
                        P(K.timeboxMinutes, JNum(TimeboxDefault))>>)

----------------------------------------------------------------------------
(* the content of message i (from 1) of the messages returned *)
ContentOf(messages, i) == GetProp(messages.a[i], K.content).s

(* part occurs in text, at some position *)
Occurs(text, part) ==
  \E i \in 1..(Len(text) - Len(part) + 1) : MatchAt(text, part, i)

(* C14: for a question and a non-empty answer, buildGradingMessages of    *)
(* either path returns, without throwing, exactly two messages, the first *)
(* of role system and the second of role user; the user content holds the *)
(* answer text and the maxScore as written; a part whose optional input   *)
(* is absent (topics, elapsed time, notes, booklist) is left out.         *)
C14_TwoMessages ==
  (probe.fn = "buildGradingMessages" /\ probe.phase = "out") =>
    \E in \in {probe.text} :
      /\ ~probe.run.threw
      /\ \E messages \in {probe.run.val} :
           /\ IsArray(messages)
           /\ Len(messages.a) = 2
           /\ GetProp(messages.a[1], K.role) = JStr(K.system)
           /\ GetProp(messages.a[2], K.role) = JStr(K.user)
           /\ GetProp(messages.a[1], K.content).t = "str"
           /\ GetProp(messages.a[2], K.content).t = "str"
           /\ Occurs(ContentOf(messages, 2), in.answer.s)
           /\ Occurs(ContentOf(messages, 2), JsString(in.maxScore))
           /\ Occurs(ContentOf(messages, 2),
                       Tpl.bar \o JsString(in.maxScore) \o Tpl.points)
           /\ ~Truthy(LengthOf(GetProp(in.question, K.booklistTopics)))
                => ~Occurs(ContentOf(messages, 2), Tpl.headTopics)
           /\ in.elapsedSeconds.t = "undef"
                => ~Occurs(ContentOf(messages, 2), Tpl.headElapsed)
           /\ in.notesSnippet.t \in {"undef", "null"}
                => ~Occurs(ContentOf(messages, 2), Tpl.headNotes)
           /\ in.booklistSnippet.t \in {"undef", "null"}
                => ~Occurs(ContentOf(messages, 2), Tpl.headBooklist)

(* the server's builder returned for a question without topics, with no   *)
(* elapsed time, notes or booklist                                        *)
C14_Witness ==
  /\ probe.fn = "buildGradingMessages"
  /\ probe.phase = "out"
  /\ probe.text.path = "server"
  /\ probe.text.answer = Str("x\n7 y")
  /\ probe.text.maxScore = JNum(7)
  /\ GetProp(probe.text.question, K.booklistTopics) = JUndef
  /\ probe.text.elapsedSeconds = JUndef
  /\ probe.text.notesSnippet = JUndef
  /\ probe.text.booklistSnippet = JNull
  /\ ~probe.run.threw
  /\ Len(probe.run.val.a) = 2

----------------------------------------------------------------------------
(* Attempt t returned what it returns when it runs alone: the outcome     *)
(* computed from its own request and its own response.                    *)
OwnAdapter(t) ==
  IF t.path = "static" THEN gradeAnswer_adapter(t.req.provider)
  ELSE handleGrade_adapter(normalizeProvider(t.req.provider))

OwnMaxScore(t) ==
  IF t.path = "static" THEN MaxScoreOf(t.req.question)
  ELSE MaxScoreOf(QuestionBank[FindQuestion(QuestionBank, Trim(JsString(t.req.questionId)))])

OwnOutcome(t) ==
  \E alone \in {[IdleAttempt EXCEPT !.maxScore = OwnMaxScore(t)]} :
    IF t.path = "static"
    THEN t.out = gradeAnswer_end(alone, GraderReply(OwnAdapter(t), t.resp[1])).out
    ELSE t.out = handleGrade_end(alone, ServerReply(OwnAdapter(t), t.resp[1])).out

(* a step that took attempt a from before to after while attempt b exists *)
StepIsolated(before, after, b) ==
  /\ att'[b] = att[b]
  /\ env' = env
  /\ (after.pc = "done" /\ after.resp # <<>>) => OwnOutcome(after)
  /\ after.sent # <<>> =>
       /\ after.sent = before.sent \/ before.sent = <<>>
       /\ after.sent[1].host = HostOf(OwnAdapter(after))

(* C15: with two attempts in flight, every step of one attempt leaves the *)
(* other attempt and process.env as they were, and what the attempt       *)
(* returns once its upstream call has answered (result, raw text or       *)
(* failure) is what it returns when run alone on its own request and its  *)
(* own response.                                                          *)
C15_AttemptsIsolated ==
  [][\A a \in DOMAIN att : att'[a] # att[a] =>
       \A b \in DOMAIN att \ {a} : StepIsolated(att[a], att'[a], b)]_vars

(* one attempt has returned a result from its own reply while the other,  *)
(* of the other path and for another question, is suspended at its        *)
(* upstream call                                                          *)
C15_Witness ==
  /\ DOMAIN att = PairAttempts
  /\ att["a1"].pc = "done"
  /\ att["a1"].path = "server"
  /\ att["a1"].resp # <<>>
  /\ att["a1"].out.kind = "success"
  /\ att["a2"].pc = "fetching"
  /\ att["a2"].path = "static"
  /\ att["a2"].maxScore # att["a1"].maxScore

----------------------------------------------------------------------------
(* the score the claim describes: the model's score coerced to a number,  *)
(* 0 when that is not finite, clamped to 0..maxScore                      *)
CoercedScore(score, maxScore) ==
  \* Number(score), then the clamp
  LET n == ToNumber(score)
  IN  JNum(Max(0, Min(maxScore.n, IF IsFinite(n) THEN n.n ELSE 0)))

(* C16: on both paths the score of a normalized result is the model's     *)
(* score coerced to a number, 0 when the coerced value is not finite,     *)
(* clamped to 0..maxScore; a numeric string counts as its number.         *)
C16_ScoreCoercedThenClamped ==
  \A a \in Attempts :
    (Succeeded(a) /\ Ran(a, "normalize") /\ ParsedOf(a).t = "obj") =>
      GetProp(ResultOf(a), K.score)
        = CoercedScore(GetProp(ParsedOf(a), K.score), att[a].maxScore)

----------------------------------------------------------------------------
(* the credential the adapter of attempt a resolves: the request's key,   *)
(* trimmed, or on the server the one of process.env                       *)
ResolvedKey(a) ==
  IF att[a].path = "static" THEN att[a].req.apiKey
  ELSE LET given == IF TypeOf(att[a].req.apiKey) = "string"
                    THEN JStr(Trim(att[a].req.apiKey.s)) ELSE JStr(<<>>)
       IN  IF att[a].adapter = "openai" THEN Or(given, env.OPENAI_API_KEY)
           ELSE IF att[a].adapter = "google"
                THEN Or(Or(given, env.GOOGLE_API_KEY), env.GEMINI_API_KEY)
           ELSE Or(given, env.ANTHROPIC_API_KEY)

(* C17: in each adapter of each path, a credential that resolves but      *)
(* fails the shape check (here: it is shorter than the minimum length)    *)
(* makes the adapter fail with InvalidCredentialFormat with no upstream   *)
(* call; a credential that does not resolve is reported as                *)
(* MissingCredential, never as InvalidCredentialFormat.                   *)
C17_InvalidCredentialFormat ==
  \A a \in Attempts :
    AdapterCalled(a) =>
      /\ (Truthy(ResolvedKey(a)) /\ Len(ResolvedKey(a).s) < MinKeyLength) =>
           /\ AdapterFailed(a)
           /\ att[a].raised.class = "InvalidCredentialFormat"
           /\ att[a].sent = <<>>
      /\ ~Truthy(ResolvedKey(a)) =>
           (AdapterFailed(a) /\ att[a].raised.class = "MissingCredential")

----------------------------------------------------------------------------
(* the caller supplied no model: absent, empty or blank *)
NoModelSupplied(a) == Trim(JsString(Or(att[a].req.model, JStr(<<>>)))) = <<>>

(* the provider's default model, as the source writes it *)
FixedDefaultModel(adapter) ==
  IF adapter = "google" THEN DefaultGoogleModelName
  ELSE IF adapter = "claude" THEN DefaultClaudeModelName
  ELSE DefaultOpenAIModelName

(* a name the claim has the Google adapter reject *)
PathBreaking(name) ==
  \/ StartsWith(name, Chars("models/"))
  \/ \E i \in 1..Len(name) : name[i] \in {"/", "?", "#"}

(* C18: the upstream request carries the provider's default model when    *)
(* the caller supplied none (absent, empty or blank) and the supplied     *)
(* name otherwise; the Google adapter, given a credential, rejects a      *)
(* supplied name that starts with models/ or holds '/', '?' or '#' with a *)
(* failure and no upstream call.                                          *)
C18_ModelResolution ==
  \A a \in Attempts :
    (AdapterCalled(a) /\ Truthy(ResolvedKey(a))) =>
      IF NoModelSupplied(a)
      THEN /\ ~(AdapterFailed(a) /\ att[a].raised.class = "ModelError")
           /\ att[a].sent # <<>> =>
                att[a].sent[1].model = JStr(FixedDefaultModel(att[a].adapter))
      ELSE IF att[a].adapter = "google" /\ PathBreaking(att[a].req.model.s)
      THEN /\ AdapterFailed(a)
           /\ att[a].raised.class = "ModelError"
           /\ att[a].sent = <<>>
      ELSE att[a].sent # <<>> => att[a].sent[1].model = att[a].req.model

----------------------------------------------------------------------------
(* C19: when the extractor yields a JSON value that is not an object at   *)
(* top level (array, number, string, boolean), the attempt ends like an   *)
(* extraction failure: it succeeds with the fallback result (score 0, the *)
(* question's maxScore, the could-not-parse rationale) and the            *)
(* normalization step is not run on the value.                            *)
C19_NonObjectTreatedAsFailure ==
  \A a \in Attempts :
    (Done(a) /\ Ran(a, "extract") /\ ParsedOf(a).t \in {"arr", "num", "str", "bool"}) =>
      /\ ~Ran(a, "normalize")
      /\ Succeeded(a)
      /\ GetProp(ResultOf(a), K.score) = JNum(0)
      /\ GetProp(ResultOf(a), K.maxScore) = att[a].maxScore
      /\ GetProp(ResultOf(a), K.rationale)
           \in {JStr(ServerNotJsonRationale), JStr(GraderNotParsedRationale)}

----------------------------------------------------------------------------
(* how a finished attempt ended *)
OutcomeKind(a) ==
  IF ~Succeeded(a) THEN "failure"
  ELSE IF Ran(a, "normalize") THEN "normalized"
  ELSE "fallback"

(* a ran on the server and b in the browser, for the same question, with  *)
(* the same provider selector, and the upstream gave both the same reply  *)
SameAttemptOnBothPaths(a, b) ==
  /\ att[a].pc = "done" /\ att[a].path = "server" /\ att[a].resp # <<>>
  /\ att[b].pc = "done" /\ att[b].path = "static" /\ att[b].resp # <<>>
  /\ QuestionOf(a) = QuestionOf(b)
  /\ att[a].req.provider = att[b].req.provider
  /\ att[a].resp = att[b].resp

(* C20: for the same question, the same provider selector and the same    *)
(* provider reply, gradeAnswer and handleGrade end in the same kind of    *)
(* outcome (normalized result, fallback result or failure), and results   *)
(* agree on score, maxScore and the four array fields.                    *)
C20_PathsAgree ==
  \A a, b \in DOMAIN att :
    SameAttemptOnBothPaths(a, b) =>
      /\ OutcomeKind(a) = OutcomeKind(b)
      /\ (Succeeded(a) /\ Succeeded(b)) =>
           \A k \in {K.score, K.maxScore} \cup {ArrayFields[j] : j \in 1..Len(ArrayFields)} :
             GetProp(ResultOf(a), k) = GetProp(ResultOf(b), k)

----------------------------------------------------------------------------
(* the setId, questionId and answer of a request body as lines 396-401    *)
(* read them: String(field || "").trim()                                  *)
TrimmedField(v) == Trim(JsString(Or(v, JStr(<<>>))))

(* a field of the request is empty after trimming *)
FieldMissing(t) ==
  \E v \in {t.req.setId, t.req.questionId, t.req.answer} : TrimmedField(v) = <<>>

(* the set exists and none of its questions has the questionId *)
QuestionUnknown(t) ==
  /\ ~FieldMissing(t)
  /\ TrimmedField(t.req.setId) = KnownSetId
  /\ \A i \in 1..Len(QuestionBank) : QuestionBank[i].id # TrimmedField(t.req.questionId)

(* the handler answered with the status and went no further: no prompt   *)
(* was built, no adapter entered, nothing sent upstream                   *)
StoppedWith(t, status) ==
  /\ t.pc = "done"
  /\ t.out.kind = "failure"
  /\ t.out.status = status
  /\ t.log = <<>>
  /\ t.sent = <<>>
  /\ t.resp = <<>>

(* C21: on the server, a grade request whose setId, questionId or answer  *)
(* is empty after trimming is answered with status 400, and one whose     *)
(* questionId matches no question of the set with status 404; in both     *)
(* cases the handler has stopped: no prompt was built, no upstream call   *)
(* was issued, and no later step changes the attempt.                     *)
C21_RejectedBeforePrompt ==
  [][\A a \in DOMAIN att :
       /\ (att'[a].path = "server" /\ ~att'[a].req.badJson) =>
            /\ FieldMissing(att'[a]) => StoppedWith(att'[a], 400)
            /\ QuestionUnknown(att'[a]) => StoppedWith(att'[a], 404)
       /\ (/\ att[a].path = "server"
           /\ ~att[a].req.badJson
           /\ FieldMissing(att[a]) \/ QuestionUnknown(att[a])) => att'[a] = att[a]]_vars

(* a request for question q9 of the known set was answered 404 *)
C21_Witness ==
  \E a \in DOMAIN att :
    /\ att[a].path = "server"
    /\ ~att[a].req.badJson
    /\ QuestionUnknown(att[a])
    /\ att[a].req.questionId = Str("q9")
    /\ StoppedWith(att[a], 404)
    /\ att[a].out.msg = <<"Question not found">>

====
